---- MODULE Spec2Model ----
(***************************************************************************)
(* Model of the coarse-map-turtlebot host-side nodes:                      *)
(*   - PurePursuit (scripts/pure_pursuit.py): path paring, lookahead       *)
(*     search and the PID command;                                         *)
(*   - the panorama capture of runner_node.py: the most-recent-message     *)
(*     buffers, their ingest callbacks and get_pano_meas.                  *)
(*                                                                         *)
(* Numbers.  Lengths are integers in units of 1.25 cm, so that 0.15 m is   *)
(* 12, 0.2 m is 16 and 2 m is 160; poses and waypoints lie on a lattice of *)
(* pitch 4 (5 cm).  Angles are integers in units of pi/4 (tau is 8).  The  *)
(* roots of the circle-segment quadratic are irrational in general: they   *)
(* are never evaluated, a lookahead point is kept as (segment, root) and   *)
(* every comparison on a root is decided exactly on m + n*sqrt(D).         *)
(***************************************************************************)
EXTENDS Integers, Sequences, FiniteSets, TLC

VARIABLES
    \* ---- PurePursuit class attributes (pure_pursuit.py:15-19)
    path_meters,     \* PurePursuit.path_meters
    integ,           \* PurePursuit.integ, in (pi/4)*tick
    err_prev,        \* PurePursuit.err_prev
    last_time,       \* PurePursuit.last_time, 0 until the first reading
    \* ---- the last call made on PurePursuit
    op,              \* which operation ran last
    cur,             \* its pose argument <<x, y, heading>>
    path_in,         \* path_meters when it was entered
    planned,         \* the path as the planner last set it
    lookahead_pt,    \* the lookahead point it ended with
    lookahead_dist,  \* the search radius it ended with
    loc,             \* its locals dt, gb and beta
    ret,             \* what it returned, or that it raised
    \* ---- runner_node.py: the measurement buffers and get_pano_meas
    g_most_recent_rgb_meas,     \* the RGB buffer: a message or NoMsg (None)
    g_most_recent_depth_meas,   \* the depth buffer: a message or NoMsg (None)
    g_use_depth_pointcloud,     \* which depth topic is subscribed (line 470)
    rgb_seq,         \* RGB messages delivered so far
    depth_seq,       \* depth messages delivered so far
    pc,              \* where the timer thread stands in get_pano_meas
    capture,         \* which of the four captures it is at
    run,             \* calls of get_pano_meas so far
    cv_img_meas,     \* the message pop_from_RGB_buffer read on line 308
    warned,          \* the current wait has logged its warning and slept
    heading_clock,   \* pivots commanded plus pivots completed
    log,             \* captures returned and pivots commanded, in order
    \* ---- motion_planning_node.py
    goal_pos_px,         \* the goal, NoGoal (None) until one is received
    g_max_fwd_cmd,       \* constraints.fwd of the configuration
    g_max_ang_cmd,       \* constraints.ang of the configuration
    g_run_test_motion,   \* the node runs its test timer
    g_test_motion_type,  \* the test motion of the command line
    cmd_pub,             \* the command last published on cmd_pub
    requested,           \* the command last handed to publish_command
    handled,             \* how the last callback of the node ended
    \* ---- locobot_interface.py and the LiDAR callback of runner_node.py
    msg,                          \* the scan last handed to get_lidar
    g_local_occ_size,             \* lidar.local_occ_size of the configuration
    g_lidar_local_occ_meas,       \* the cells of the last grid that are 0
    g_lidar_detects_robot_facing_wall,   \* the forward-obstruction flag
    obstacle_in_front_of_robot,   \* the flag held by the motion planner
    scanned,                      \* which callback ran last on the scan
    ticked,                       \* timer_update_loop ran since the last scan
    \* ---- runner_node.py, get_pano_meas: the grids from the depth captures
    local_occ_east,               \* front capture
    local_occ_south,              \* capture after one pivot (right)
    local_occ_west,               \* capture after two pivots (back)
    local_occ_north,              \* capture after three pivots (left)
    agent_yaws,                   \* the angles handed to rotate_image_to_north
    rotated_local_occ,            \* the rotated south, west and north grids
    occ_dtype,                    \* element type of the capture grids
    merged_local_occ,             \* local_occ_meas right after line 268
    pano_local_occ_meas,          \* local_occ_meas that get_pano_meas returns
    merged,                       \* lines 261-293 have run
    \* ---- runner_node.py, get_odom
    g_first_odom,                 \* the origin, None until the first message
    odom_msg,                     \* the pose of the last odometry message
    new_odom                      \* the pose last handed to set_new_odom

ppvars == <<path_meters, integ, err_prev, last_time, op, cur, path_in,
            planned, lookahead_pt, lookahead_dist, loc, ret>>

panovars == <<g_most_recent_rgb_meas, g_most_recent_depth_meas,
              g_use_depth_pointcloud, rgb_seq, depth_seq, pc, capture, run,
              cv_img_meas, warned, heading_clock, log>>

motionvars == <<goal_pos_px, g_max_fwd_cmd, g_max_ang_cmd, g_run_test_motion,
                g_test_motion_type, cmd_pub, requested, handled>>

lidarvars == <<msg, g_local_occ_size, g_lidar_local_occ_meas,
               g_lidar_detects_robot_facing_wall, obstacle_in_front_of_robot,
               scanned, ticked>>

mergevars == <<local_occ_east, local_occ_south, local_occ_west, local_occ_north,
               agent_yaws, rotated_local_occ, occ_dtype, merged_local_occ,
               pano_local_occ_meas, merged>>

odomvars == <<g_first_odom, odom_msg, new_odom>>

vars == <<ppvars, panovars, motionvars, lidarvars, mergevars, odomvars>>

----------------------------------------------------------------------------
(* Bounds of the model.                                                    *)

MaxCoord == 4        \* lattice coordinates are 4*0 .. 4*MaxCoord
MaxPathLen == 3      \* longest path handed to the pure functions
MaxPlanLen == 2      \* longest path the planner sets on the controller
MaxRadius == 5       \* choose_lookahead_pt is tried with radii 4*1 .. 4*MaxRadius
MaxTime == 2         \* clock readings are 1 .. MaxTime
MaxInteg == 8        \* |integ| stays within MaxInteg
MaxMsgs == 4         \* messages delivered on each topic
MaxRuns == 1         \* calls of get_pano_meas
MaxCmd == 5          \* publish_command is tried on -MaxCmd .. MaxCmd
MaxBeams == 2        \* longest ranges array of a scan
MaxRange == 3        \* largest range_max of a scan, in pixels

Coord == {4 * i : i \in 0..MaxCoord}

\* Waypoints the paths handed to the pure functions are made of.
Waypoints == {<<12, 4>>, <<12, 8>>, <<16, 12>>, <<16, 16>>}

\* Waypoints a planned path is made of.
PlanWaypoints == {<<12, 4>>, <<12, 8>>, <<16, 16>>}

\* Poses the controller is called on.
PosePoints == {<<0, 0>>, <<0, 4>>, <<16, 4>>, <<16, 16>>}

Headings == {-2, 0, 4}

Poses == {<<p[1], p[2], h>> : p \in PosePoints, h \in Headings}

PathsUpTo(n) == UNION {[1..k -> Waypoints] : k \in 0..n}

PlannedPaths == UNION {[1..k -> PlanWaypoints] : k \in 0..MaxPlanLen}

----------------------------------------------------------------------------
(* Arithmetic.                                                             *)

Sgn(x) == IF x > 0 THEN 1 ELSE IF x < 0 THEN -1 ELSE 0

Abs(x) == IF x < 0 THEN -x ELSE x

RECURSIVE Pow(_, _)
Pow(x, n) == IF n = 0 THEN 1 ELSE x * Pow(x, n - 1)

\* The sign of m + n*sqrt(D), for D >= 0.
SgnSurd(m, n, D) ==
    IF n = 0 \/ D = 0 THEN Sgn(m)
    ELSE IF m = 0 THEN Sgn(n)
    ELSE IF Sgn(m) = Sgn(n) THEN Sgn(m)
    ELSE Sgn(m) * Sgn(m * m - n * n * D)

----------------------------------------------------------------------------
(* pure_pursuit.py: constants.                                             *)

pare_radius == 12            \* 0.15 m
lookahead_dist_init == 16    \* 0.2 m
lookahead_dist_max == 160    \* 2 m
tau == 8                     \* a full turn
pi == 4                      \* a half turn

----------------------------------------------------------------------------
(* pure_pursuit.py: pare_path.                                             *)

\* Squared distance from pose c to waypoint p (line 78, before the root).
Dist2(c, p) == (c[1] - p[1]) * (c[1] - p[1]) + (c[2] - p[2]) * (c[2] - p[2])

\* r < 0.15 (line 79): compared on the squares.
Near(c, p) == Dist2(c, p) < pare_radius * pare_radius

\* The for loop of pare_path from index i on (i is the Python index plus 1):
\* at the first waypoint near the pose, del path[0:i+1] and return.
RECURSIVE pare_scan(_, _, _)
pare_scan(path, c, i) ==
    IF i > Len(path) THEN path
    ELSE IF Near(c, path[i]) THEN SubSeq(path, i + 1, Len(path))
    ELSE pare_scan(path, c, i + 1)

\* A paring that deletes the near waypoint alone (del path[i]).
pare_path_deletes_one(path, c) ==
    LET near == {i \in 1..Len(path) : Near(c, path[i])}
    IN  IF near = {} THEN path
        ELSE LET i == CHOOSE j \in near : \A l \in near : j <= l
             IN  SubSeq(path, 1, i - 1) \o SubSeq(path, i + 1, Len(path))

\* A paring that keeps the near waypoint (del path[0:i]).
pare_path_keeps_near(path, c) ==
    LET near == {i \in 1..Len(path) : Near(c, path[i])}
    IN  IF near = {} THEN path
        ELSE LET i == CHOOSE j \in near : \A l \in near : j <= l
             IN  SubSeq(path, i, Len(path))

pare_path(path, c) == pare_scan(path, c, 1)

----------------------------------------------------------------------------
(* pure_pursuit.py: choose_lookahead_pt.                                   *)
(* Segment i (the Python loop index) joins path[i] and path[i+1] of the    *)
(* 1-based sequence, that is path_meters[i-1] and path_meters[i].          *)

NonePt == [kind |-> "none", seg |-> 0, root |-> 0]

\* path_meters[i-1] itself.
WaypointPt(i) == [kind |-> "waypoint", seg |-> i, root |-> 0]

\* path_meters[i-1] + q[k]*diff on segment i.
IntersectionPt(i, k) == [kind |-> "intersection", seg |-> i, root |-> k]

\* diff (line 97) and v1 (line 99).
SegDiff(path, i) == <<path[i + 1][1] - path[i][1], path[i + 1][2] - path[i][2]>>

SegV1(path, c, i) == <<path[i][1] - c[1], path[i][2] - c[2]>>

\* The coefficients a, b, c of lines 101-103.
QuadA(path, i) ==
    LET d == SegDiff(path, i) IN d[1] * d[1] + d[2] * d[2]

QuadB(path, c, i) ==
    LET d == SegDiff(path, i)
        v == SegV1(path, c, i)
    IN  2 * (v[1] * d[1] + v[2] * d[2])

QuadC(path, c, dist, i) ==
    LET v == SegV1(path, c, i) IN v[1] * v[1] + v[2] * v[2] - dist * dist

\* b**2 - 4*a*c, the argument of sqrt on line 105.
Discriminant(path, c, dist, i) ==
    QuadB(path, c, i) * QuadB(path, c, i)
        - 4 * QuadA(path, i) * QuadC(path, c, dist, i)

\* The sign of q[k] - t for t in {0, 1}, where q[0] = (-b-discr)/(2*a) and
\* q[1] = (-b+discr)/(2*a) (line 112), for a > 0 and a discriminant >= 0.
RootSign(path, c, dist, i, k, t) ==
    SgnSurd(- QuadB(path, c, i) - 2 * QuadA(path, i) * t,
            IF k = 0 THEN -1 ELSE 1,
            Discriminant(path, c, dist, i))

\* valid[k] (line 114).  On a zero-length segment a = b = 0 and the
\* discriminant is 0: q[k] is 0.0/0.0 on numpy floats (the pose is a numpy
\* array), a nan, and every comparison on it is False.
valid(path, c, dist, i, k) ==
    /\ QuadA(path, i) # 0
    /\ RootSign(path, c, dist, i, k, 0) >= 0
    /\ RootSign(path, c, dist, i, k, 1) <= 0

\* One pass of the loop body (lines 96-118) on segment i, from the lookahead
\* point pt found so far.
segment_step(path, c, dist, i, pt) ==
    IF Discriminant(path, c, dist, i) < 0 THEN pt      \* except: continue
    ELSE IF valid(path, c, dist, i, 0) THEN IntersectionPt(i, 0)
    ELSE IF valid(path, c, dist, i, 1) THEN IntersectionPt(i, 1)
    ELSE pt                                            \* else: continue

\* for i in range(1, len(path_meters)) (line 95), from segment i on.
RECURSIVE segment_scan(_, _, _, _, _)
segment_scan(path, c, dist, i, pt) ==
    IF i > Len(path) - 1 THEN pt
    ELSE segment_scan(path, c, dist, i + 1, segment_step(path, c, dist, i, pt))

\* The loop with a break at the first segment that yields a point.
RECURSIVE segment_scan_first(_, _, _, _, _)
segment_scan_first(path, c, dist, i, pt) ==
    IF i > Len(path) - 1 \/ pt # NonePt THEN pt
    ELSE segment_scan_first(path, c, dist, i + 1,
                            segment_step(path, c, dist, i, pt))

choose_lookahead_pt_first(path, c, dist) ==
    IF Len(path) = 1 THEN WaypointPt(1)
    ELSE segment_scan_first(path, c, dist, 1, NonePt)

choose_lookahead_pt(path, c, dist) ==
    IF Len(path) = 1 THEN WaypointPt(1)
    ELSE segment_scan(path, c, dist, 1, NonePt)

----------------------------------------------------------------------------
(* pure_pursuit.py: compute_command.                                       *)

\* The sign of ax*wx + ay*wy, where (wx, wy) is the vector from the pose to
\* the lookahead point pt found at radius dist.  On an intersection point
\* w = v1 + q*diff, and the sign is that of 2*a*alpha - b*beta +- beta*discr
\* (every term is a multiple of 4 on the lattice, and is reduced by it).
LinSign(path, c, dist, pt, ax, ay) ==
    IF pt.kind = "waypoint"
    THEN Sgn(ax * (path[pt.seg][1] - c[1]) + ay * (path[pt.seg][2] - c[2]))
    ELSE LET v == SegV1(path, c, pt.seg)
             d == SegDiff(path, pt.seg)
             alpha == ax * v[1] + ay * v[2]
             beta == ax * d[1] + ay * d[2]
             s == IF pt.root = 0 THEN -1 ELSE 1
         IN  SgnSurd((2 * QuadA(path, pt.seg) * alpha
                        - QuadB(path, c, pt.seg) * beta) \div 4,
                     (s * beta) \div 4,
                     Discriminant(path, c, dist, pt.seg))

\* atan2(wy, wx) in units of pi/4, from the signs of wx, wy and |wx| - |wy|:
\* exact on the eight compass directions, and inside an octant truncated
\* toward 0.  atan2(0, 0) is 0.
atan2(sy, sx, sd) ==
    LET mag == IF sy = 0 THEN (IF sx >= 0 THEN 0 ELSE 4)
               ELSE IF sx = 0 THEN 2
               ELSE IF sx > 0 THEN (IF sd > 0 THEN 0 ELSE 1)
               ELSE (IF sd < 0 THEN 2 ELSE 3)
    IN  IF sy < 0 THEN - mag ELSE mag

\* gb (line 46): the bearing from the pose to the lookahead point.
bearing(path, c, dist, pt) ==
    LET sx == LinSign(path, c, dist, pt, 1, 0)
        sy == LinSign(path, c, dist, pt, 0, 1)
        sum == LinSign(path, c, dist, pt, 1, 1)
        dif == LinSign(path, c, dist, pt, 1, -1)
        \* the sign of |wx| - |wy|
        sd == IF sx >= 0 THEN (IF sy >= 0 THEN dif ELSE sum)
              ELSE (IF sy >= 0 THEN - sum ELSE - dif)
    IN  atan2(sy, sx, sd)

\* A heading error left as the difference is.
remainder_unwrapped(x, m) == x

\* math.remainder(x, m): x - n*m with n the integer nearest x/m, the even one
\* on a tie.
remainder(x, m) ==
    LET r == x % m
    IN  IF 2 * r < m THEN r
        ELSE IF 2 * r > m THEN r - m
        ELSE IF ((x - r) \div m) % 2 = 0 THEN r ELSE r - m

\* The while loop of lines 37-39, entered with the radius dist and the point
\* pt; at is the radius of the last call of choose_lookahead_pt.  The product
\* dist*1.25 is exact up to 25 (0.3125 m) and is kept to its integer part
\* beyond, where the circle is wider than the lattice.
\* Mutation of lookahead_search: the loop goes on to the maximum radius
\* whether or not a point was found.
RECURSIVE lookahead_search_to_max(_, _, _, _, _)
lookahead_search_to_max(path, c, dist, pt, at) ==
    IF dist <= lookahead_dist_max
    THEN lookahead_search_to_max(path, c, (dist * 5) \div 4,
                                 choose_lookahead_pt(path, c, dist), dist)
    ELSE [pt |-> pt, dist |-> dist, at |-> at]

RECURSIVE lookahead_search(_, _, _, _, _)
lookahead_search(path, c, dist, pt, at) ==
    IF pt = NonePt /\ dist <= lookahead_dist_max
    THEN lookahead_search(path, c, (dist * 5) \div 4,
                          choose_lookahead_pt(path, c, dist), dist)
    ELSE [pt |-> pt, dist |-> dist, at |-> at]

\* A fallback to the waypoint nearest the pose, the first of them on a tie.
fallback_pt_nearest(path, c) ==
    WaypointPt(CHOOSE i \in 1..Len(path) :
                  \A j \in 1..Len(path) :
                      \/ Dist2(c, path[i]) < Dist2(c, path[j])
                      \/ (Dist2(c, path[i]) = Dist2(c, path[j]) /\ i <= j))

\* Lines 41-43: no radius found the path; lookahead_pt = path_meters[0].
fallback_pt(path, c) == WaypointPt(1)

\* What compute_command hands back.
Returned(fwd, ang) == [kind |-> "return", fwd |-> fwd, ang |-> ang]

Raised == [kind |-> "raise", fwd |-> 0, ang |-> 0]

NoCall == [kind |-> "none", fwd |-> 0, ang |-> 0]

NoLocals == [timed |-> FALSE, dt |-> 0, gb |-> 0, beta |-> 0]

\* An empty path answered with a crawl forward.
no_path_command_crawl == Returned(1, 0)

\* return 0.0, 0.0 (line 31).
no_path_command == Returned(0, 0)

\* Line 65 in units of 0.01/pi^12 m/s: 0.02*(1 - |beta/pi|)**12 + 0.01.
base_speed == 2

min_speed == 1

\* A forward speed without the constant term.
forward_speed_no_floor(beta) == base_speed * Pow(pi - Abs(beta), 12)

forward_speed(beta) ==
    base_speed * Pow(pi - Abs(beta), 12) + min_speed * Pow(pi, 12)

\* Lines 60-63 in units of pi/8 rad/s: P = 0.5*beta, I = 0.0*integ and
\* D = 0.0*(beta - err_prev)/dt, for dt # 0.
angular_speed(beta, ig, ep, dt) == beta + 0 * ig + 0 * (beta - ep)

\* A call that stamps last_time before it tests the path.
compute_command_stamps_no_path(path, ig, ep, lt, c, t1, t2) ==
    LET pared == pare_path(path, c)
    IN  IF Len(pared) < 1
        THEN [path |-> pared, integ |-> ig, err_prev |-> ep, last_time |-> t2,
              lookahead_pt |-> NonePt, lookahead_dist |-> 0,
              loc |-> NoLocals, ret |-> no_path_command]
        ELSE
          LET found == lookahead_search(pared, c, lookahead_dist_init, NonePt, 0)
              pt == IF found.pt = NonePt THEN fallback_pt(pared, c) ELSE found.pt
              gb == bearing(pared, c, found.at, pt)
              beta == remainder(gb - c[3], tau)
              dt == IF lt # 0 THEN t1 - lt ELSE 0
          IN  [path |-> pared,
               integ |-> ig + beta * dt,
               err_prev |-> IF dt = 0 THEN ep ELSE beta,
               last_time |-> t2,
               lookahead_pt |-> pt,
               lookahead_dist |-> found.dist,
               loc |-> [timed |-> TRUE, dt |-> dt, gb |-> gb, beta |-> beta],
               ret |-> IF dt = 0 THEN Raised
                       ELSE Returned(forward_speed(beta),
                                     angular_speed(beta, ig + beta * dt, ep, dt))]

\* compute_command on the pose c, from the class attributes path, ig
\* (integ), ep (err_prev) and lt (last_time); t1 and t2 are the clock
\* readings of lines 53 and 54.  The result holds the attributes after the
\* call, the locals, and the value returned.  With dt = 0 the division of
\* line 62 raises ZeroDivisionError after lines 54 and 57 have run.
compute_command(path, ig, ep, lt, c, t1, t2) ==
    LET pared == pare_path(path, c)
    IN  IF Len(pared) < 1
        THEN [path |-> pared, integ |-> ig, err_prev |-> ep, last_time |-> lt,
              lookahead_pt |-> NonePt, lookahead_dist |-> 0,
              loc |-> NoLocals, ret |-> no_path_command]
        ELSE
          LET found == lookahead_search(pared, c, lookahead_dist_init, NonePt, 0)
              pt == IF found.pt = NonePt THEN fallback_pt(pared, c) ELSE found.pt
              gb == bearing(pared, c, found.at, pt)
              beta == remainder(gb - c[3], tau)
              dt == IF lt # 0 THEN t1 - lt ELSE 0
          IN  [path |-> pared,
               integ |-> ig + beta * dt,
               err_prev |-> IF dt = 0 THEN ep ELSE beta,
               last_time |-> t2,
               lookahead_pt |-> pt,
               lookahead_dist |-> found.dist,
               loc |-> [timed |-> TRUE, dt |-> dt, gb |-> gb, beta |-> beta],
               ret |-> IF dt = 0 THEN Raised
                       ELSE Returned(forward_speed(beta),
                                     angular_speed(beta, ig + beta * dt, ep, dt))]

----------------------------------------------------------------------------
(* The controller as a state machine: the planner replaces the path         *)
(* (motion_planning_node.py:166) and compute_command is called on poses.   *)

NoPose == <<0, 0, 0>>

\* None in a measurement buffer.
NoMsg == [id |-> 0, stamp |-> 0]

\* The runner before any message and any call of get_pano_meas.
PanoAtRest ==
    /\ g_most_recent_rgb_meas = NoMsg
    /\ g_most_recent_depth_meas = NoMsg
    /\ rgb_seq = 0
    /\ depth_seq = 0
    /\ pc = "idle"
    /\ capture = 0
    /\ run = 0
    /\ cv_img_meas = NoMsg
    /\ warned = FALSE
    /\ heading_clock = 0
    /\ log = <<>>

\* None in goal_pos_px.
NoGoal == <<>>

\* No command yet.
NoCmd == [kind |-> "none", fwd |-> 0, ang |-> 0]

\* A command (fwd, ang).
Cmd(fwd, ang) == [kind |-> "cmd", fwd |-> fwd, ang |-> ang]

\* 0.01 m/s in the unit of forward_speed.
SpeedUnit == Pow(pi, 12)

\* Values of constraints.fwd (0.01 and 0.04 m/s) and constraints.ang (pi/4
\* and pi/2 rad/s, in units of pi/8 rad/s) the node is configured with.
MaxFwdCmds == {SpeedUnit, 4 * SpeedUnit}

MaxAngCmds == {2, 4}

\* The test motions of the command line; "spin" is none of those the node
\* knows.
TestMotionTypes == {"none", "circle", "straight", "random", "spin"}

\* The motion planning node before any message, with no test timer.
MotionAtRest ==
    /\ goal_pos_px = NoGoal
    /\ g_max_fwd_cmd = 4 * SpeedUnit
    /\ g_max_ang_cmd = 4
    /\ g_run_test_motion = FALSE
    /\ g_test_motion_type = "none"
    /\ cmd_pub = NoCmd
    /\ requested = NoCmd
    /\ handled = "none"

\* None in g_first_odom and before any odometry.
NoOdom == <<>>

\* get_odom before any odometry message.
OdomAtRest ==
    /\ g_first_odom = NoOdom
    /\ odom_msg = NoOdom
    /\ new_odom = NoOdom

\* A grid of n by n cells, occ the set of its cells that hold 0.
Grid(n, occ) == [n |-> n, occ |-> occ]

\* None in local_occ_meas.
NoGrid == Grid(0, {})

\* get_pano_meas before any depth capture.
MergeAtRest ==
    /\ local_occ_east = NoGrid
    /\ local_occ_south = NoGrid
    /\ local_occ_west = NoGrid
    /\ local_occ_north = NoGrid
    /\ agent_yaws = <<>>
    /\ rotated_local_occ = <<>>
    /\ occ_dtype = "float64"
    /\ merged_local_occ = NoGrid
    /\ pano_local_occ_meas = NoGrid
    /\ merged = FALSE

\* No scan yet.
NoScan == [range_min |-> 0, range_max |-> 0, angle_min |-> 0,
           angle_increment |-> 0, ranges |-> <<>>]

\* The LiDAR interface before any scan, with a grid of 6 by 6.
LidarAtRest ==
    /\ msg = NoScan
    /\ g_local_occ_size = 6
    /\ g_lidar_local_occ_meas = {}
    /\ g_lidar_detects_robot_facing_wall = FALSE
    /\ obstacle_in_front_of_robot = FALSE
    /\ scanned = "none"
    /\ ticked = FALSE

\* The controller before any path and any call.
PurePursuitAtRest ==
    /\ path_meters = <<>>
    /\ integ = 0
    /\ err_prev = 0
    /\ last_time = 0
    /\ op = "init"
    /\ cur = NoPose
    /\ path_in = <<>>
    /\ planned = <<>>
    /\ lookahead_pt = NonePt
    /\ lookahead_dist = 0
    /\ loc = NoLocals
    /\ ret = NoCall

InitPurePursuit ==
    /\ PurePursuitAtRest
    /\ PanoAtRest
    /\ MotionAtRest
    /\ LidarAtRest
    /\ MergeAtRest
    /\ OdomAtRest
    /\ g_use_depth_pointcloud = FALSE

\* PurePursuit.path_meters = path
SetPath(p) ==
    /\ path_meters' = p
    /\ planned' = p
    /\ op' = "set_path"
    /\ cur' = NoPose
    /\ path_in' = <<>>
    /\ lookahead_pt' = NonePt
    /\ lookahead_dist' = 0
    /\ loc' = NoLocals
    /\ ret' = NoCall
    /\ UNCHANGED <<integ, err_prev, last_time>>
    /\ UNCHANGED panovars
    /\ UNCHANGED motionvars
    /\ UNCHANGED lidarvars
    /\ UNCHANGED odomvars
    /\ UNCHANGED mergevars

\* PurePursuit.compute_command(c); t1 and t2 are the readings of time() on
\* lines 53 and 54.  The clock moves on between two calls (t1 > last_time)
\* and does not go back within one (t2 >= t1); t1 is not read while
\* last_time is 0, and neither is read when the pared path is empty.
ComputeCommand(c, t1, t2) ==
    /\ t2 >= t1
    /\ IF Len(pare_path(path_meters, c)) < 1 THEN t1 = 1 /\ t2 = 1
       ELSE IF last_time # 0 THEN t1 > last_time
       ELSE t1 = t2
    /\ \E r \in {compute_command(path_meters, integ, err_prev, last_time, c, t1, t2)} :
           /\ Abs(r.integ) <= MaxInteg
           /\ path_meters' = r.path
           /\ integ' = r.integ
           /\ err_prev' = r.err_prev
           /\ last_time' = r.last_time
           /\ lookahead_pt' = r.lookahead_pt
           /\ lookahead_dist' = r.lookahead_dist
           /\ loc' = r.loc
           /\ ret' = r.ret
    /\ op' = "compute_command"
    /\ cur' = c
    /\ path_in' = path_meters
    /\ UNCHANGED planned
    /\ UNCHANGED panovars
    /\ UNCHANGED motionvars
    /\ UNCHANGED lidarvars
    /\ UNCHANGED odomvars
    /\ UNCHANGED mergevars

NextPurePursuit ==
    \/ \E p \in PlannedPaths : SetPath(p)
    \/ \E c \in Poses, t1 \in 1..MaxTime, t2 \in 1..MaxTime : ComputeCommand(c, t1, t2)

SpecPurePursuit == InitPurePursuit /\ [][NextPurePursuit]_vars

----------------------------------------------------------------------------
(* choose_lookahead_pt as a function of the path, the pose and the radius. *)

InitLookahead ==
    /\ path_meters \in PathsUpTo(MaxPathLen)
    /\ integ = 0
    /\ err_prev = 0
    /\ last_time = 0
    /\ op = "init"
    /\ cur = NoPose
    /\ path_in = <<>>
    /\ planned = <<>>
    /\ lookahead_pt = NonePt
    /\ lookahead_dist = 0
    /\ loc = NoLocals
    /\ ret = NoCall
    /\ PanoAtRest
    /\ MotionAtRest
    /\ LidarAtRest
    /\ MergeAtRest
    /\ OdomAtRest
    /\ g_use_depth_pointcloud = FALSE

ChooseLookahead(c, dist) ==
    /\ op = "init"
    /\ lookahead_pt' = choose_lookahead_pt(path_meters, c, dist)
    /\ lookahead_dist' = dist
    /\ cur' = c
    /\ op' = "choose_lookahead_pt"
    /\ UNCHANGED <<path_meters, integ, err_prev, last_time, path_in, planned,
                   loc, ret>>
    /\ UNCHANGED panovars
    /\ UNCHANGED motionvars
    /\ UNCHANGED lidarvars
    /\ UNCHANGED odomvars
    /\ UNCHANGED mergevars

NextLookahead ==
    \E x \in Coord, y \in Coord, r \in 1..MaxRadius :
        ChooseLookahead(<<x, y, 0>>, 4 * r)

SpecLookahead == InitLookahead /\ [][NextLookahead]_vars

----------------------------------------------------------------------------
(* Lines 33-43 of compute_command as a function of the path and the pose:  *)
(* the search for the lookahead point and the fallback.                    *)

SearchLookahead(c) ==
    /\ op = "init"
    /\ Len(path_meters) >= 1
    /\ \E found \in {lookahead_search(path_meters, c, lookahead_dist_init, NonePt, 0)} :
        /\ lookahead_pt' = IF found.pt = NonePt THEN fallback_pt(path_meters, c)
                           ELSE found.pt
        /\ lookahead_dist' = found.dist
    /\ cur' = c
    /\ op' = "lookahead_search"
    /\ UNCHANGED <<path_meters, integ, err_prev, last_time, path_in, planned,
                   loc, ret>>
    /\ UNCHANGED panovars
    /\ UNCHANGED motionvars
    /\ UNCHANGED lidarvars
    /\ UNCHANGED odomvars
    /\ UNCHANGED mergevars

NextSearch == \E x \in Coord, y \in Coord : SearchLookahead(<<x, y, 0>>)

SpecSearch == InitLookahead /\ [][NextSearch]_vars

----------------------------------------------------------------------------
(* runner_node.py: the measurement buffers, their ingest callbacks and     *)
(* get_pano_meas.  rospy runs each subscriber's callback and the timer's   *)
(* callback on threads of their own, so a callback may run between any two *)
(* statements of get_pano_meas.  The node reaches rospy.spin() only with   *)
(* depth.use_depth_as_ground_truth set (g_use_depth_pointcloud, read on    *)
(* line 470, is assigned under that flag alone), so every capture is an    *)
(* RGB pop followed by a depth pop.  A message carries its sequence number *)
(* and the value of heading_clock when it was delivered; heading_clock is  *)
(* odd while the robot pivots.                                             *)

Msg(n) == [id |-> n, stamp |-> heading_clock]

\* A callback that leaves a message not yet read in the buffer.
get_RGB_image_keeps_unread ==
    /\ rgb_seq < MaxMsgs
    /\ rgb_seq' = rgb_seq + 1
    /\ g_most_recent_rgb_meas' = IF g_most_recent_rgb_meas = NoMsg THEN Msg(rgb_seq + 1)
                                 ELSE g_most_recent_rgb_meas
    /\ UNCHANGED <<g_most_recent_depth_meas, g_use_depth_pointcloud, depth_seq,
                   pc, capture, run, cv_img_meas, warned, heading_clock, log>>
    /\ UNCHANGED ppvars
    /\ UNCHANGED motionvars
    /\ UNCHANGED lidarvars
    /\ UNCHANGED odomvars
    /\ UNCHANGED mergevars

\* get_RGB_image (lines 320-326).
get_RGB_image ==
    /\ rgb_seq < MaxMsgs
    /\ rgb_seq' = rgb_seq + 1
    /\ g_most_recent_rgb_meas' = Msg(rgb_seq + 1)
    /\ UNCHANGED <<g_most_recent_depth_meas, g_use_depth_pointcloud, depth_seq,
                   pc, capture, run, cv_img_meas, warned, heading_clock, log>>
    /\ UNCHANGED ppvars
    /\ UNCHANGED motionvars
    /\ UNCHANGED lidarvars
    /\ UNCHANGED odomvars
    /\ UNCHANGED mergevars

\* get_RS_depth_image (lines 367-372), subscribed on line 475.
get_RS_depth_image ==
    /\ ~ g_use_depth_pointcloud
    /\ depth_seq < MaxMsgs
    /\ depth_seq' = depth_seq + 1
    /\ g_most_recent_depth_meas' = Msg(depth_seq + 1)
    /\ UNCHANGED <<g_most_recent_rgb_meas, g_use_depth_pointcloud, rgb_seq,
                   pc, capture, run, cv_img_meas, warned, heading_clock, log>>
    /\ UNCHANGED ppvars
    /\ UNCHANGED motionvars
    /\ UNCHANGED lidarvars
    /\ UNCHANGED odomvars
    /\ UNCHANGED mergevars

\* get_pointcloud_msg (lines 374-379), subscribed on line 472.
get_pointcloud_msg ==
    /\ g_use_depth_pointcloud
    /\ depth_seq < MaxMsgs
    /\ depth_seq' = depth_seq + 1
    /\ g_most_recent_depth_meas' = Msg(depth_seq + 1)
    /\ UNCHANGED <<g_most_recent_rgb_meas, g_use_depth_pointcloud, rgb_seq,
                   pc, capture, run, cv_img_meas, warned, heading_clock, log>>
    /\ UNCHANGED ppvars
    /\ UNCHANGED motionvars
    /\ UNCHANGED lidarvars
    /\ UNCHANGED odomvars
    /\ UNCHANGED mergevars

\* An entry of the log.
Captured(ev, m) ==
    [run |-> run, ev |-> ev, k |-> capture, id |-> m.id, stamp |-> m.stamp,
     at |-> heading_clock]

\* timer_update_loop calls get_pano_meas (line 112), which enters
\* pop_from_RGB_buffer (line 228).
start_pano ==
    /\ pc = "idle"
    /\ run < MaxRuns
    /\ run' = run + 1
    /\ capture' = 1
    /\ pc' = "rgb_wait"
    /\ warned' = FALSE
    /\ UNCHANGED <<g_most_recent_rgb_meas, g_most_recent_depth_meas,
                   g_use_depth_pointcloud, rgb_seq, depth_seq, cv_img_meas,
                   heading_clock, log>>
    /\ UNCHANGED ppvars
    /\ UNCHANGED motionvars
    /\ UNCHANGED lidarvars
    /\ UNCHANGED odomvars
    /\ UNCHANGED mergevars

\* pop_from_RGB_buffer, line 304: the loop test finds a message.
rgb_wait_over ==
    /\ pc = "rgb_wait"
    /\ g_most_recent_rgb_meas # NoMsg
    /\ pc' = "rgb_read"
    /\ UNCHANGED <<g_most_recent_rgb_meas, g_most_recent_depth_meas,
                   g_use_depth_pointcloud, rgb_seq, depth_seq, capture, run,
                   cv_img_meas, warned, heading_clock, log>>
    /\ UNCHANGED ppvars
    /\ UNCHANGED motionvars
    /\ UNCHANGED lidarvars
    /\ UNCHANGED odomvars
    /\ UNCHANGED mergevars

\* A wait that gives up once it has warned.
rgb_sleep_times_out ==
    /\ pc = "rgb_wait"
    /\ g_most_recent_rgb_meas = NoMsg
    /\ warned' = TRUE
    /\ pc' = IF warned THEN "rgb_read" ELSE pc
    /\ UNCHANGED <<g_most_recent_rgb_meas, g_most_recent_depth_meas,
                   g_use_depth_pointcloud, rgb_seq, depth_seq, capture, run,
                   cv_img_meas, heading_clock, log>>
    /\ UNCHANGED ppvars
    /\ UNCHANGED motionvars
    /\ UNCHANGED lidarvars
    /\ UNCHANGED odomvars
    /\ UNCHANGED mergevars

\* pop_from_RGB_buffer, lines 304-306: the buffer is None; warn, sleep and
\* test again.
rgb_sleep ==
    /\ pc = "rgb_wait"
    /\ g_most_recent_rgb_meas = NoMsg
    /\ warned' = TRUE
    /\ UNCHANGED <<g_most_recent_rgb_meas, g_most_recent_depth_meas,
                   g_use_depth_pointcloud, rgb_seq, depth_seq, pc, capture, run,
                   cv_img_meas, heading_clock, log>>
    /\ UNCHANGED ppvars
    /\ UNCHANGED motionvars
    /\ UNCHANGED lidarvars
    /\ UNCHANGED odomvars
    /\ UNCHANGED mergevars

\* pop_from_RGB_buffer, line 308: the buffer is read for the conversion.
rgb_read ==
    /\ pc = "rgb_read"
    /\ cv_img_meas' = g_most_recent_rgb_meas
    /\ pc' = "rgb_clear"
    /\ UNCHANGED <<g_most_recent_rgb_meas, g_most_recent_depth_meas,
                   g_use_depth_pointcloud, rgb_seq, depth_seq, capture, run,
                   warned, heading_clock, log>>
    /\ UNCHANGED ppvars
    /\ UNCHANGED motionvars
    /\ UNCHANGED lidarvars
    /\ UNCHANGED odomvars
    /\ UNCHANGED mergevars

\* Line 310 left out.
rgb_clear_skipped ==
    /\ pc = "rgb_clear"
    /\ pc' = "rgb_return"
    /\ UNCHANGED <<g_most_recent_rgb_meas, g_most_recent_depth_meas,
                   g_use_depth_pointcloud, rgb_seq, depth_seq, capture, run,
                   cv_img_meas, warned, heading_clock, log>>
    /\ UNCHANGED ppvars
    /\ UNCHANGED motionvars
    /\ UNCHANGED lidarvars
    /\ UNCHANGED odomvars
    /\ UNCHANGED mergevars

\* pop_from_RGB_buffer, line 310: g_most_recent_rgb_meas = None.
rgb_clear ==
    /\ pc = "rgb_clear"
    /\ g_most_recent_rgb_meas' = NoMsg
    /\ pc' = "rgb_return"
    /\ UNCHANGED <<g_most_recent_depth_meas, g_use_depth_pointcloud, rgb_seq,
                   depth_seq, capture, run, cv_img_meas, warned, heading_clock,
                   log>>
    /\ UNCHANGED ppvars
    /\ UNCHANGED motionvars
    /\ UNCHANGED lidarvars
    /\ UNCHANGED odomvars
    /\ UNCHANGED mergevars

\* pop_from_RGB_buffer, lines 313-318: resize and return the image; the
\* caller goes on to pop_from_depth_buffer.
rgb_return ==
    /\ pc = "rgb_return"
    /\ log' = Append(log, Captured("rgb", cv_img_meas))
    /\ cv_img_meas' = NoMsg
    /\ pc' = "depth_blank"
    /\ UNCHANGED <<g_most_recent_rgb_meas, g_most_recent_depth_meas,
                   g_use_depth_pointcloud, rgb_seq, depth_seq, capture, run,
                   warned, heading_clock>>
    /\ UNCHANGED ppvars
    /\ UNCHANGED motionvars
    /\ UNCHANGED lidarvars
    /\ UNCHANGED odomvars
    /\ UNCHANGED mergevars

\* Line 388 left out.
depth_blank_skipped ==
    /\ pc = "depth_blank"
    /\ warned' = FALSE
    /\ pc' = "depth_wait"
    /\ UNCHANGED <<g_most_recent_rgb_meas, g_most_recent_depth_meas,
                   g_use_depth_pointcloud, rgb_seq, depth_seq, capture, run,
                   cv_img_meas, heading_clock, log>>
    /\ UNCHANGED ppvars
    /\ UNCHANGED motionvars
    /\ UNCHANGED lidarvars
    /\ UNCHANGED odomvars
    /\ UNCHANGED mergevars

\* Line 388 run by the first capture only.
depth_blank_first_capture ==
    /\ pc = "depth_blank"
    /\ g_most_recent_depth_meas' =
           IF capture = 1 THEN NoMsg ELSE g_most_recent_depth_meas
    /\ warned' = FALSE
    /\ pc' = "depth_wait"
    /\ UNCHANGED <<g_most_recent_rgb_meas, g_use_depth_pointcloud, rgb_seq,
                   depth_seq, capture, run, cv_img_meas, heading_clock, log>>
    /\ UNCHANGED ppvars
    /\ UNCHANGED motionvars
    /\ UNCHANGED lidarvars
    /\ UNCHANGED odomvars
    /\ UNCHANGED mergevars

\* pop_from_depth_buffer, line 388: g_most_recent_depth_meas = None.
depth_blank ==
    /\ pc = "depth_blank"
    /\ g_most_recent_depth_meas' = NoMsg
    /\ warned' = FALSE
    /\ pc' = "depth_wait"
    /\ UNCHANGED <<g_most_recent_rgb_meas, g_use_depth_pointcloud, rgb_seq,
                   depth_seq, capture, run, cv_img_meas, heading_clock, log>>
    /\ UNCHANGED ppvars
    /\ UNCHANGED motionvars
    /\ UNCHANGED lidarvars
    /\ UNCHANGED odomvars
    /\ UNCHANGED mergevars

\* pop_from_depth_buffer, line 389: the loop test finds a message.
depth_wait_over ==
    /\ pc = "depth_wait"
    /\ g_most_recent_depth_meas # NoMsg
    /\ pc' = "depth_return"
    /\ UNCHANGED <<g_most_recent_rgb_meas, g_most_recent_depth_meas,
                   g_use_depth_pointcloud, rgb_seq, depth_seq, capture, run,
                   cv_img_meas, warned, heading_clock, log>>
    /\ UNCHANGED ppvars
    /\ UNCHANGED motionvars
    /\ UNCHANGED lidarvars
    /\ UNCHANGED odomvars
    /\ UNCHANGED mergevars

\* pop_from_depth_buffer, lines 389-391: the buffer is None; warn, sleep and
\* test again.
depth_sleep ==
    /\ pc = "depth_wait"
    /\ g_most_recent_depth_meas = NoMsg
    /\ warned' = TRUE
    /\ UNCHANGED <<g_most_recent_rgb_meas, g_most_recent_depth_meas,
                   g_use_depth_pointcloud, rgb_seq, depth_seq, pc, capture, run,
                   cv_img_meas, heading_clock, log>>
    /\ UNCHANGED ppvars
    /\ UNCHANGED motionvars
    /\ UNCHANGED lidarvars
    /\ UNCHANGED odomvars
    /\ UNCHANGED mergevars

\* pop_from_depth_buffer, line 392: return g_most_recent_depth_meas.
depth_return ==
    /\ pc = "depth_return"
    /\ log' = Append(log, Captured("depth", g_most_recent_depth_meas))
    /\ pc' = "pivot"
    /\ UNCHANGED <<g_most_recent_rgb_meas, g_most_recent_depth_meas,
                   g_use_depth_pointcloud, rgb_seq, depth_seq, capture, run,
                   cv_img_meas, warned, heading_clock>>
    /\ UNCHANGED ppvars
    /\ UNCHANGED motionvars
    /\ UNCHANGED lidarvars
    /\ UNCHANGED odomvars
    /\ UNCHANGED mergevars

\* A get_pano_meas without its last pivot (line 249).
pivot_command_three_times ==
    /\ pc = "pivot"
    /\ IF capture < 4
       THEN /\ log' = Append(log, Captured("turn_right", NoMsg))
            /\ heading_clock' = heading_clock + 1
            /\ pc' = "pivoting"
       ELSE /\ pc' = "idle"
            /\ UNCHANGED <<log, heading_clock>>
    /\ UNCHANGED <<g_most_recent_rgb_meas, g_most_recent_depth_meas,
                   g_use_depth_pointcloud, rgb_seq, depth_seq, capture, run,
                   cv_img_meas, warned>>
    /\ UNCHANGED ppvars
    /\ UNCHANGED motionvars
    /\ UNCHANGED lidarvars
    /\ UNCHANGED odomvars
    /\ UNCHANGED mergevars

\* get_pano_meas, lines 234, 239, 244 and 249:
\* g_cmn_interface.motion_planner.cmd_discrete_action("turn_right").
pivot_command ==
    /\ pc = "pivot"
    /\ log' = Append(log, Captured("turn_right", NoMsg))
    /\ heading_clock' = heading_clock + 1
    /\ pc' = "pivoting"
    /\ UNCHANGED <<g_most_recent_rgb_meas, g_most_recent_depth_meas,
                   g_use_depth_pointcloud, rgb_seq, depth_seq, capture, run,
                   cv_img_meas, warned>>
    /\ UNCHANGED ppvars
    /\ UNCHANGED motionvars
    /\ UNCHANGED lidarvars
    /\ UNCHANGED odomvars
    /\ UNCHANGED mergevars

\* cmd_discrete_action returns once the pivot is complete; get_pano_meas goes
\* on to the next capture, or after the fourth pivot to the merging of what
\* it captured (lines 252-297) and returns.
pivot_complete ==
    /\ pc = "pivoting"
    /\ heading_clock' = heading_clock + 1
    /\ IF capture < 4
       THEN /\ capture' = capture + 1
            /\ pc' = "rgb_wait"
            /\ warned' = FALSE
       ELSE /\ pc' = "idle"
            /\ UNCHANGED <<capture, warned>>
    /\ UNCHANGED <<g_most_recent_rgb_meas, g_most_recent_depth_meas,
                   g_use_depth_pointcloud, rgb_seq, depth_seq, run, cv_img_meas,
                   log>>
    /\ UNCHANGED ppvars
    /\ UNCHANGED motionvars
    /\ UNCHANGED lidarvars
    /\ UNCHANGED odomvars
    /\ UNCHANGED mergevars

\* The steps of the timer thread.
get_pano_meas ==
    \/ start_pano
    \/ rgb_wait_over
    \/ rgb_sleep
    \/ rgb_read
    \/ rgb_clear
    \/ rgb_return
    \/ depth_blank
    \/ depth_wait_over
    \/ depth_sleep
    \/ depth_return
    \/ pivot_command
    \/ pivot_complete

InitPano ==
    /\ PurePursuitAtRest
    /\ PanoAtRest
    /\ MotionAtRest
    /\ LidarAtRest
    /\ MergeAtRest
    /\ OdomAtRest
    /\ g_use_depth_pointcloud \in BOOLEAN

NextPano ==
    \/ get_RGB_image
    \/ get_RS_depth_image
    \/ get_pointcloud_msg
    \/ get_pano_meas

SpecPano == InitPano /\ [][NextPano]_vars

\* The timer thread is scheduled: a step of get_pano_meas that stays possible
\* is taken.
FairSpecPano == SpecPano /\ WF_vars(get_pano_meas)

----------------------------------------------------------------------------
(* motion_planning_node.py: the callbacks that publish a command.  The A*  *)
(* planner and the map transforms are outside the node: a call of the      *)
(* planner yields no path (None) or the path in metres that lines 158-163  *)
(* make of its result.  clamp is imported from scripts/cmn_utilities.py.   *)

\* clamp(value, min, max): value held within [min, max].
clamp(value, lo, hi) == IF value < lo THEN lo ELSE IF value > hi THEN hi ELSE value

\* run_astar returned None.
NoPath == [kind |-> "none", path |-> <<>>]

\* run_astar returned a path; path is what lines 158-163 make of it.
FoundPath(path) == [kind |-> "path", path |-> path]

\* Paths the planner finds, in metres.
PlannerPaths ==
    {<<<<12, 4>>, <<12, 8>>>>, <<<<12, 8>>, <<16, 16>>>>, <<<<16, 16>>>>}

\* What the planner may hand to plan_path_to_goal.
PlannerResults == {NoPath} \cup {FoundPath(p) : p \in PlannerPaths}

\* Pose estimates the node receives.
EstimatePoses == {<<p[1], p[2], h>> : p \in {<<0, 4>>, <<16, 4>>}, h \in Headings}

\* A clamp of the forward velocity to [-g_max_fwd_cmd, g_max_fwd_cmd].
clamp_command_symmetric(fwd, ang) ==
    Cmd(clamp(fwd, - g_max_fwd_cmd, g_max_fwd_cmd),
        clamp(ang, - g_max_ang_cmd, g_max_ang_cmd))

\* Lines 65-66 of publish_command and lines 169-170 of plan_path_to_goal:
\* fwd is clamped to [0, g_max_fwd_cmd], ang to [-g_max_ang_cmd, g_max_ang_cmd].
clamp_command(fwd, ang) ==
    Cmd(clamp(fwd, 0, g_max_fwd_cmd),
        clamp(ang, - g_max_ang_cmd, g_max_ang_cmd))

\* The outcome of compute_command returned as it is.
clamp_returned_unclamped(r) ==
    [called |-> TRUE, path |-> r.path, integ |-> r.integ,
     err_prev |-> r.err_prev, last_time |-> r.last_time,
     lookahead_pt |-> r.lookahead_pt, lookahead_dist |-> r.lookahead_dist,
     loc |-> r.loc, ret |-> r.ret, cmd |-> r.ret]

\* Lines 167-179 on the outcome r of compute_command: the command it
\* returned is clamped.
clamp_returned(r) ==
    [called |-> TRUE, path |-> r.path, integ |-> r.integ,
     err_prev |-> r.err_prev, last_time |-> r.last_time,
     lookahead_pt |-> r.lookahead_pt, lookahead_dist |-> r.lookahead_dist,
     loc |-> r.loc, ret |-> r.ret,
     cmd |-> IF r.ret.kind = "raise" THEN Raised
             ELSE Returned(clamp(r.ret.fwd, 0, g_max_fwd_cmd),
                           clamp(r.ret.ang, - g_max_ang_cmd, g_max_ang_cmd))]

\* A planner failure that empties the path of the controller.
plan_path_to_goal_drops_path(plan, path, ig, ep, lt, c, t1, t2) ==
    IF plan = NoPath
    THEN [called |-> FALSE, path |-> <<>>, integ |-> ig, err_prev |-> ep,
          last_time |-> lt, lookahead_pt |-> NonePt, lookahead_dist |-> 0,
          loc |-> NoLocals, ret |-> NoCall, cmd |-> Returned(0, 0)]
    ELSE CHOOSE planned_cmd \in
             {clamp_returned(r) :
                 r \in {compute_command(plan.path, ig, ep, lt, c, t1, t2)}} : TRUE

\* plan_path_to_goal (lines 138-179) on the result plan of the planner, with
\* the controller holding path, ig, ep and lt: with no path it returns
\* (0.0, 0.0) on line 155; otherwise it sets the path (line 166), calls
\* compute_command and returns the command clamped (cmd).  An exception of
\* compute_command is not caught.
plan_path_to_goal(plan, path, ig, ep, lt, c, t1, t2) ==
    IF plan = NoPath
    THEN [called |-> FALSE, path |-> path, integ |-> ig, err_prev |-> ep,
          last_time |-> lt, lookahead_pt |-> NonePt, lookahead_dist |-> 0,
          loc |-> NoLocals, ret |-> NoCall, cmd |-> Returned(0, 0)]
    ELSE CHOOSE planned_cmd \in
             {clamp_returned(r) :
                 r \in {compute_command(plan.path, ig, ep, lt, c, t1, t2)}} : TRUE

\* publish_command(fwd, ang), lines 60-70.
publish_command(fwd, ang) ==
    /\ requested' = Cmd(fwd, ang)
    /\ cmd_pub' = clamp_command(fwd, ang)

\* get_goal_pos (lines 117-124).
get_goal_pos ==
    /\ handled # "exit"
    /\ goal_pos_px' = <<1, 1>>
    /\ handled' = "goal"
    /\ UNCHANGED <<g_max_fwd_cmd, g_max_ang_cmd, g_run_test_motion,
                   g_test_motion_type, cmd_pub, requested>>
    /\ UNCHANGED ppvars
    /\ UNCHANGED panovars
    /\ UNCHANGED lidarvars
    /\ UNCHANGED odomvars
    /\ UNCHANGED mergevars

\* test_timer_callback (lines 73-91).
test_timer_callback ==
    /\ handled # "exit"
    /\ g_run_test_motion
    /\ CASE g_test_motion_type = "none" ->
              publish_command(0, 0) /\ handled' = "test"
         [] g_test_motion_type = "circle" ->
              publish_command(g_max_fwd_cmd, g_max_ang_cmd) /\ handled' = "test"
         [] g_test_motion_type = "straight" ->
              publish_command(g_max_fwd_cmd, 0) /\ handled' = "test"
         [] g_test_motion_type = "random" ->
              publish_command(0, 0) /\ handled' = "test"
         [] OTHER ->
              handled' = "exit" /\ UNCHANGED <<cmd_pub, requested>>
    /\ UNCHANGED <<goal_pos_px, g_max_fwd_cmd, g_max_ang_cmd, g_run_test_motion,
                   g_test_motion_type>>
    /\ UNCHANGED ppvars
    /\ UNCHANGED panovars
    /\ UNCHANGED lidarvars
    /\ UNCHANGED odomvars
    /\ UNCHANGED mergevars

\* get_localization_est (lines 93-115) with no goal: constant motion.  In
\* test mode this node runs alone (lines 57-58) and no estimate arrives.
get_localization_est_no_goal ==
    /\ handled # "exit"
    /\ ~ g_run_test_motion
    /\ goal_pos_px = NoGoal
    /\ publish_command(g_max_fwd_cmd, g_max_ang_cmd)
    /\ handled' = "no_goal"
    /\ UNCHANGED <<goal_pos_px, g_max_fwd_cmd, g_max_ang_cmd, g_run_test_motion,
                   g_test_motion_type>>
    /\ UNCHANGED ppvars
    /\ UNCHANGED panovars
    /\ UNCHANGED lidarvars
    /\ UNCHANGED odomvars
    /\ UNCHANGED mergevars

\* get_localization_est (lines 93-115) with a goal, on the pose estimate c
\* and the result plan of the planner; t1 and t2 are the clock readings of
\* compute_command, as in ComputeCommand.  An exception of compute_command
\* ends the callback before publish_command.
get_localization_est(c, plan, t1, t2) ==
    /\ handled # "exit"
    /\ ~ g_run_test_motion
    /\ goal_pos_px # NoGoal
    /\ t2 >= t1
    /\ IF plan = NoPath \/ Len(pare_path(plan.path, c)) < 1 THEN t1 = 1 /\ t2 = 1
       ELSE IF last_time # 0 THEN t1 > last_time
       ELSE t1 = t2
    /\ \E r \in {plan_path_to_goal(plan, path_meters, integ, err_prev,
                                   last_time, c, t1, t2)} :
           /\ Abs(r.integ) <= MaxInteg
           /\ path_meters' = r.path
           /\ integ' = r.integ
           /\ err_prev' = r.err_prev
           /\ last_time' = r.last_time
           /\ IF r.called
              THEN /\ op' = "compute_command"
                   /\ cur' = c
                   /\ path_in' = plan.path
                   /\ planned' = plan.path
                   /\ lookahead_pt' = r.lookahead_pt
                   /\ lookahead_dist' = r.lookahead_dist
                   /\ loc' = r.loc
                   /\ ret' = r.ret
              ELSE UNCHANGED <<op, cur, path_in, planned, lookahead_pt,
                               lookahead_dist, loc, ret>>
           /\ IF r.cmd.kind = "raise"
              THEN handled' = "raised" /\ UNCHANGED <<cmd_pub, requested>>
              ELSE /\ publish_command(r.cmd.fwd, r.cmd.ang)
                   /\ handled' = IF r.called THEN "planned" ELSE "no_path"
    /\ UNCHANGED <<goal_pos_px, g_max_fwd_cmd, g_max_ang_cmd, g_run_test_motion,
                   g_test_motion_type>>
    /\ UNCHANGED panovars
    /\ UNCHANGED lidarvars
    /\ UNCHANGED odomvars
    /\ UNCHANGED mergevars

InitMotion ==
    /\ PurePursuitAtRest
    /\ PanoAtRest
    /\ LidarAtRest
    /\ MergeAtRest
    /\ OdomAtRest
    /\ g_use_depth_pointcloud = FALSE
    /\ goal_pos_px = NoGoal
    /\ g_max_fwd_cmd \in MaxFwdCmds
    /\ g_max_ang_cmd \in MaxAngCmds
    /\ g_run_test_motion \in BOOLEAN
    /\ g_test_motion_type \in TestMotionTypes
    /\ ~ g_run_test_motion => g_test_motion_type = "none"
    /\ cmd_pub = NoCmd
    /\ requested = NoCmd
    /\ handled = "none"

NextMotion ==
    \/ get_goal_pos
    \/ test_timer_callback
    \/ get_localization_est_no_goal
    \/ \E c \in EstimatePoses, plan \in PlannerResults, t1 \in 1..MaxTime, t2 \in 1..MaxTime :
          get_localization_est(c, plan, t1, t2)

SpecMotion == InitMotion /\ [][NextMotion]_vars

----------------------------------------------------------------------------
(* publish_command as a function of the command it is handed.              *)

\* Forward and angular velocities handed to publish_command.
FwdCmds == {k * SpeedUnit : k \in (- MaxCmd)..MaxCmd}

AngCmds == (- MaxCmd)..MaxCmd

InitClamp ==
    /\ PurePursuitAtRest
    /\ PanoAtRest
    /\ LidarAtRest
    /\ MergeAtRest
    /\ OdomAtRest
    /\ g_use_depth_pointcloud = FALSE
    /\ goal_pos_px = NoGoal
    /\ g_max_fwd_cmd \in MaxFwdCmds
    /\ g_max_ang_cmd \in MaxAngCmds
    /\ g_run_test_motion = FALSE
    /\ g_test_motion_type = "none"
    /\ cmd_pub = NoCmd
    /\ requested = NoCmd
    /\ handled = "none"

PublishCommand(fwd, ang) ==
    /\ handled = "none"
    /\ publish_command(fwd, ang)
    /\ handled' = "publish_command"
    /\ UNCHANGED <<goal_pos_px, g_max_fwd_cmd, g_max_ang_cmd, g_run_test_motion,
                   g_test_motion_type>>
    /\ UNCHANGED ppvars
    /\ UNCHANGED panovars
    /\ UNCHANGED lidarvars
    /\ UNCHANGED odomvars
    /\ UNCHANGED mergevars

NextClamp == \E fwd \in FwdCmds, ang \in AngCmds : PublishCommand(fwd, ang)

SpecClamp == InitClamp /\ [][NextClamp]_vars

(***************************************************************************)
(* locobot_interface.py: get_lidar.                                        *)
(* Ranges are in pixels of the grid. An angle is <<q, o>>: q eighths of a  *)
(* turn plus, when o = 1, the angle whose sine is 3/5 and cosine 4/5.      *)
(* A grid is the set of its cells that hold 0 (occupied); every other cell *)
(* holds 1 (free). Module mode is the imported one, where the grid is      *)
(* saved.                                                                  *)
(***************************************************************************)

\* lidar.local_occ_size of the configuration.
LocalOccSizes == {3, 6, 9}

Angles == {<<q, o>> : q \in 0..(tau - 1), o \in {0, 1}}

\* msg.angle_min + i * msg.angle_increment, the increment in eighths of a turn.
beam_angle(m, i) == <<(m.angle_min[1] + i * m.angle_increment) % tau, m.angle_min[2]>>

\* The scans handed to get_lidar.
Scans ==
    {[range_min |-> 1, range_max |-> rmax, angle_min |-> a,
      angle_increment |-> inc, ranges |-> rs] :
        rmax \in {MaxRange - 1, MaxRange}, a \in Angles, inc \in {1, 2},
        rs \in UNION {[1..k -> 0..(MaxRange + 1)] : k \in 0..MaxBeams}}

\* The integer square root.
Isqrt(n) == CHOOSE k \in 0..n : k * k <= n /\ (k + 1) * (k + 1) > n

\* A quarter turn of a vector.
quarter_turn(v) == <<-v[2], v[1]>>

\* <<cos, sin>> of an angle: times 5 when q is even, times 5 * sqrt(2) when
\* q is odd.
direction(angle) ==
    LET v0 == IF angle[2] = 1 THEN <<4, 3>> ELSE <<5, 0>>
        h == (angle[1] % tau) \div 2
        v == IF h = 0 THEN v0
             ELSE IF h = 1 THEN quarter_turn(v0)
             ELSE IF h = 2 THEN quarter_turn(quarter_turn(v0))
             ELSE quarter_turn(quarter_turn(quarter_turn(v0)))
    IN  IF angle[1] % 2 = 0 THEN v ELSE <<v[1] - v[2], v[1] + v[2]>>

\* int(dist_px * np.sin(angle)) and int(dist_px * np.cos(angle)), x being the
\* component of direction(angle): int() truncates toward zero.
truncated(d, x, angle) ==
    IF angle[1] % 2 = 0
    THEN Sgn(x) * ((d * Abs(x)) \div 5)
    ELSE Sgn(x) * Isqrt((d * d * x * x) \div 50)

\* The cell <<r, c>> at distance d along the ray of a beam.
ray_cell(n, d, angle) ==
    LET center == n \div 2
        v == direction(angle)
    IN  <<center + truncated(d, v[2], angle), center - truncated(d, v[1], angle)>>

\* The loop of bresenham(x0, y0, x1, y1) from its step x on.
RECURSIVE bresenham_from(_, _, _, _, _, _, _)
bresenham_from(x0, y0, t, dx, dy, x, yD) ==
    IF x > dx THEN <<>>
    ELSE LET y == yD[1]
             D == yD[2]
         IN  <<(<<x0 + x * t[1] + y * t[3], y0 + x * t[2] + y * t[4]>>)>>
             \o bresenham_from(x0, y0, t, dx, dy, x + 1,
                    IF D >= 0 THEN <<y + 1, D - 2 * dx + 2 * dy>>
                    ELSE <<y, D + 2 * dy>>)

\* bresenham(x0, y0, x1, y1): the cells of the line, first to last.
bresenham(x0, y0, x1, y1) ==
    LET xsign == IF x1 - x0 > 0 THEN 1 ELSE -1
        ysign == IF y1 - y0 > 0 THEN 1 ELSE -1
        adx == Abs(x1 - x0)
        ady == Abs(y1 - y0)
    IN  IF adx > ady
        THEN bresenham_from(x0, y0, <<xsign, 0, 0, ysign>>, adx, ady, 0,
                            <<0, 2 * ady - adx>>)
        ELSE bresenham_from(x0, y0, <<0, ysign, xsign, 0>>, ady, adx, 0,
                            <<0, 2 * adx - ady>>)

\* A test without the lower bounds.
in_image_no_lower(cell, n) == cell[1] < n /\ cell[2] < n

\* Line 50: the cell is on the image.
in_image(cell, n) == cell[1] >= 0 /\ cell[2] >= 0 /\ cell[1] < n /\ cell[2] < n

\* A trace that stops at the edge cells of the image, one cell early.
RECURSIVE mark_until_edge(_, _, _)
mark_until_edge(line, n, k) ==
    IF k > Len(line) THEN {}
    ELSE IF in_image(line[k], n) /\ in_image(<<line[k][1] - 1, line[k][2] - 1>>, n - 2)
         THEN {line[k]} \cup mark_until_edge(line, n, k + 1)
    ELSE {}

\* Lines 47-53: the cells marked along a line, until it leaves the image.
RECURSIVE mark_until_out(_, _, _)
mark_until_out(line, n, k) ==
    IF k > Len(line) THEN {}
    ELSE IF in_image(line[k], n) THEN {line[k]} \cup mark_until_out(line, n, k + 1)
    ELSE {}

\* Line 34: the beam is not skipped.
beam_in_range(m, i) ==
    ~ (m.ranges[i + 1] < m.range_min \/ m.ranges[i + 1] > m.range_max)

\* Mutation of ray_start: the line is traced from the centre of the image.
ray_start_centre(n, m, i) == <<n \div 2, n \div 2>>

\* Lines 43-44: the cell the beam hits.
ray_start(n, m, i) == ray_cell(n, m.ranges[i + 1], beam_angle(m, i))

\* Lines 38-53: the cells beam i marks.
beam_cells(n, m, i) ==
    IF ~ beam_in_range(m, i) THEN {}
    ELSE LET hit == ray_start(n, m, i)
             max_range == ray_cell(n, m.range_max, beam_angle(m, i))
         IN  mark_until_out(bresenham(hit[1], hit[2], max_range[1], max_range[2]),
                            n, 1)

\* Lines 28-53: the occupied cells of local_occ_meas after the loop.
local_occ_meas(n, m) == UNION {beam_cells(n, m, i) : i \in 0..(Len(m.ranges) - 1)}

\* Line 59: the cells of front_cell_block.
front_cell_block(n) ==
    {<<r, c>> : r \in (n \div 3)..((2 * n) \div 3 - 1), c \in ((2 * n) \div 3)..(n - 1)}

\* Mutation of facing_wall: any occupied cell of the block raises the flag.
facing_wall_any(n, occ) == (front_cell_block(n) \cap occ) # {}

\* Lines 60-61: the mean of the block is at most 0.75.
facing_wall(n, occ) ==
    LET total == Cardinality(front_cell_block(n))
        free == Cardinality(front_cell_block(n) \ occ)
    IN  4 * free <= 3 * total

\* get_lidar(msg) on the scan held in msg.
get_lidar ==
    /\ scanned = "none"
    /\ \E occ \in {local_occ_meas(g_local_occ_size, msg)} :
        /\ g_lidar_local_occ_meas' = occ
        /\ g_lidar_detects_robot_facing_wall' = facing_wall(g_local_occ_size, occ)
    /\ scanned' = "get_lidar"
    /\ UNCHANGED <<msg, g_local_occ_size, obstacle_in_front_of_robot, ticked>>
    /\ UNCHANGED ppvars
    /\ UNCHANGED panovars
    /\ UNCHANGED motionvars
    /\ UNCHANGED odomvars
    /\ UNCHANGED mergevars

\* A scan arrives at a node with some configured grid size.
InitLidar ==
    /\ PurePursuitAtRest
    /\ PanoAtRest
    /\ MotionAtRest
    /\ MergeAtRest
    /\ OdomAtRest
    /\ g_use_depth_pointcloud = FALSE
    /\ msg \in Scans
    /\ g_local_occ_size \in LocalOccSizes
    /\ g_lidar_local_occ_meas = {}
    /\ g_lidar_detects_robot_facing_wall = FALSE
    /\ obstacle_in_front_of_robot = FALSE
    /\ scanned = "none"
    /\ ticked = FALSE

NextLidar == get_lidar

SpecLidar == InitLidar /\ [][NextLidar]_vars

(***************************************************************************)
(* runner_node.py: the scan callback get_lidar and the control tick        *)
(* timer_update_loop, which rospy runs on separate threads. The callback   *)
(* is two steps, the call of line 363 and the assignment of line 365, and  *)
(* a tick may fall between them.                                           *)
(***************************************************************************)

\* The scans delivered on /locobot/scan: a single beam along an eighth of a
\* turn.
RunnerScans ==
    {m \in Scans : /\ Len(m.ranges) = 1
                   /\ m.angle_increment = 1
                   /\ m.angle_min[2] = 0
                   /\ m.range_max = MaxRange}

\* locobot_interface.get_local_occ_from_lidar(msg): the grid and the flag of
\* the interface are recomputed from the scan.
get_local_occ_from_lidar(m) ==
    \E occ \in {local_occ_meas(g_local_occ_size, m)} :
        /\ g_lidar_local_occ_meas' = occ
        /\ g_lidar_detects_robot_facing_wall' = facing_wall(g_local_occ_size, occ)

\* Line 363 of the scan callback.
runner_get_lidar_call(m) ==
    /\ scanned \in {"none", "runner_done"}
    /\ msg' = m
    /\ get_local_occ_from_lidar(m)
    /\ scanned' = "runner_called"
    /\ ticked' = FALSE
    /\ UNCHANGED <<g_local_occ_size, obstacle_in_front_of_robot>>
    /\ UNCHANGED ppvars
    /\ UNCHANGED panovars
    /\ UNCHANGED motionvars
    /\ UNCHANGED odomvars
    /\ UNCHANGED mergevars

\* Mutation of runner_get_lidar_assign: the planner is not updated.
runner_get_lidar_assign_skipped ==
    /\ scanned = "runner_called"
    /\ scanned' = "runner_done"
    /\ UNCHANGED <<msg, g_local_occ_size, g_lidar_local_occ_meas,
                   g_lidar_detects_robot_facing_wall, obstacle_in_front_of_robot,
                   ticked>>
    /\ UNCHANGED ppvars
    /\ UNCHANGED panovars
    /\ UNCHANGED motionvars
    /\ UNCHANGED odomvars
    /\ UNCHANGED mergevars

\* Line 365 of the scan callback, after which it returns.
runner_get_lidar_assign ==
    /\ scanned = "runner_called"
    /\ obstacle_in_front_of_robot' = g_lidar_detects_robot_facing_wall
    /\ scanned' = "runner_done"
    /\ UNCHANGED <<msg, g_local_occ_size, g_lidar_local_occ_meas,
                   g_lidar_detects_robot_facing_wall, ticked>>
    /\ UNCHANGED ppvars
    /\ UNCHANGED panovars
    /\ UNCHANGED motionvars
    /\ UNCHANGED odomvars
    /\ UNCHANGED mergevars

\* timer_update_loop: the tick reads the grid and the flags and assigns
\* neither.
timer_update_loop ==
    /\ scanned # "none"
    /\ ticked' = TRUE
    /\ UNCHANGED <<msg, g_local_occ_size, g_lidar_local_occ_meas,
                   g_lidar_detects_robot_facing_wall, obstacle_in_front_of_robot,
                   scanned>>
    /\ UNCHANGED ppvars
    /\ UNCHANGED panovars
    /\ UNCHANGED motionvars
    /\ UNCHANGED odomvars
    /\ UNCHANGED mergevars

InitRunnerLidar ==
    /\ PurePursuitAtRest
    /\ PanoAtRest
    /\ MotionAtRest
    /\ MergeAtRest
    /\ OdomAtRest
    /\ g_use_depth_pointcloud = FALSE
    /\ msg = NoScan
    /\ g_local_occ_size \in LocalOccSizes
    /\ g_lidar_local_occ_meas = {}
    /\ g_lidar_detects_robot_facing_wall = FALSE
    /\ obstacle_in_front_of_robot = FALSE
    /\ scanned = "none"
    /\ ticked = FALSE

NextRunnerLidar ==
    \/ \E m \in RunnerScans : runner_get_lidar_call(m)
    \/ runner_get_lidar_assign
    \/ timer_update_loop

SpecRunnerLidar == InitRunnerLidar /\ [][NextRunnerLidar]_vars

(***************************************************************************)
(* runner_node.py: get_pano_meas, lines 261-293: the grids of the four     *)
(* depth captures are rotated, merged and their corners filled.            *)
(***************************************************************************)

\* The grids a depth capture yields: free, or with one cell occupied, in a
\* corner third or in the middle third of the rows.
CaptureGrids(n) ==
    {Grid(n, occ) : occ \in {{}, {<<0, 1>>}, {<<1, n - 1>>}, {<<n - 1, n - 1>>},
                             {<<n \div 2, 1>>}}}

\* A quarter turn of an image, counter-clockwise.
rotate_quarter(img) ==
    Grid(img.n, {<<img.n - 1 - cell[2], cell[1]>> : cell \in img.occ})

\* k quarter turns of an image.
rotate_quarters(img, k) ==
    IF k = 0 THEN img
    ELSE IF k = 1 THEN rotate_quarter(img)
    ELSE IF k = 2 THEN rotate_quarter(rotate_quarter(img))
    ELSE rotate_quarter(rotate_quarter(rotate_quarter(img)))

\* Mutation of rotate_image_to_north: the image is turned by the yaw itself.
rotate_image_to_north_by_yaw(img, agent_yaw) ==
    rotate_quarters(img, (agent_yaw % tau) \div 2)

\* rotate_image_to_north(img, agent_yaw): the image of an agent whose yaw is
\* agent_yaw, 0 being east, is turned so that the agent faces north.
rotate_image_to_north(img, agent_yaw) ==
    rotate_quarters(img, ((pi \div 2 - agent_yaw) % tau) \div 2)

\* Mutation of min_of: the last grid of the list overwrites the others.
min_of_last(grids) == grids[Len(grids)]

\* np.min([...], axis=0): a cell is occupied when it is in any of the grids.
min_of(grids) == Grid(grids[1].n, UNION {grids[k].occ : k \in 1..Len(grids)})

\* The element types of a grid.
Dtypes == {"float32", "float64"}

\* Mutation of occ_percent_reaches_thresh: the comparison is strict.
occ_percent_exceeds_thresh(occupied, total, dtype) == 10 * occupied > total

\* 1 - np.mean(block) >= occ_thresh, with occ_thresh = 0.1, on a block of
\* total cells of which occupied hold 0 and the others 1. The mean is rounded
\* in the element type of the grid. When a tenth of the block is occupied the
\* mean is the 0.9 of that type: in float64, 1 - 0.9 is 0.09999999999999998,
\* below 0.1; in float32, 1 - 0.9 is 0.100000024, above 0.1.
occ_percent_reaches_thresh(occupied, total, dtype) ==
    \/ 10 * occupied > total
    \/ 10 * occupied = total /\ total > 0 /\ dtype = "float32"

\* Lines 275-293: a corner block is set to 0 when the test above passes.
fill_corner(img, rows, cols, dtype) ==
    LET block == rows \X cols
    IN  IF occ_percent_reaches_thresh(Cardinality(block \cap img.occ),
                                      Cardinality(block), dtype)
        THEN Grid(img.n, img.occ \cup block)
        ELSE img

\* A repair with div = 2: the blocks are the four quarters of the grid.
fill_corners_quarters(img, dtype) ==
    LET half == img.n \div 2
        low == 0..(half - 1)
        high == half..(img.n - 1)
    IN  fill_corner(fill_corner(fill_corner(fill_corner(img, low, low, dtype),
                                            low, high, dtype),
                                high, high, dtype),
                    high, low, dtype)

\* Lines 270-293: the four corners, top left, top right, bottom right and
\* bottom left.
fill_corners(img, dtype) ==
    LET one_third == img.n \div 3
        two_thirds == (2 * img.n) \div 3
        low == 0..(one_third - 1)
        high == two_thirds..(img.n - 1)
    IN  fill_corner(fill_corner(fill_corner(fill_corner(img, low, low, dtype),
                                            low, high, dtype),
                                high, high, dtype),
                    high, low, dtype)

\* Lines 261-293 of get_pano_meas.
merge_local_occ ==
    /\ ~ merged
    /\ agent_yaws' = <<0, -(pi \div 2), pi>>
    /\ \E south \in {rotate_image_to_north(local_occ_south, 0)},
          west \in {rotate_image_to_north(local_occ_west, -(pi \div 2))},
          north \in {rotate_image_to_north(local_occ_north, pi)} :
        /\ rotated_local_occ' = <<south, west, north>>
        /\ \E local_occ \in {min_of(<<local_occ_east, south, west, north>>)} :
            /\ merged_local_occ' = local_occ
            /\ pano_local_occ_meas' = fill_corners(local_occ, occ_dtype)
    /\ merged' = TRUE
    /\ UNCHANGED <<local_occ_east, local_occ_south, local_occ_west, local_occ_north,
                   occ_dtype>>
    /\ UNCHANGED ppvars
    /\ UNCHANGED panovars
    /\ UNCHANGED motionvars
    /\ UNCHANGED lidarvars
    /\ UNCHANGED odomvars

\* The four captures of a panorama have been taken.
InitMerge ==
    /\ PurePursuitAtRest
    /\ PanoAtRest
    /\ MotionAtRest
    /\ LidarAtRest
    /\ OdomAtRest
    /\ g_use_depth_pointcloud = FALSE
    /\ \E n \in {3, 6, 13} :
        /\ local_occ_east \in CaptureGrids(n)
        /\ local_occ_south \in CaptureGrids(n)
        /\ local_occ_west \in CaptureGrids(n)
        /\ local_occ_north \in CaptureGrids(n)
    /\ agent_yaws = <<>>
    /\ rotated_local_occ = <<>>
    /\ occ_dtype \in Dtypes
    /\ merged_local_occ = NoGrid
    /\ pano_local_occ_meas = NoGrid
    /\ merged = FALSE

NextMerge == merge_local_occ

SpecMerge == InitMerge /\ [][NextMerge]_vars

(***************************************************************************)
(* runner_node.py: get_odom. An odometry message is a position on the      *)
(* lattice and a planar orientation, the quaternion of q eighths of a      *)
(* turn about the vertical axis.                                           *)
(***************************************************************************)

\* The odometry messages delivered on /locobot/mobile_base/odom.
OdomMsgs == {[x |-> x, y |-> y, q |-> q] : x \in {0, 4}, y \in {0, 8}, q \in {0, 2, 4, 6}}

\* Lines 338-341: atan2(2(xy + wz), ww + xx - yy - zz) of the quaternion of
\* q eighths of a turn is that angle brought into (-pi, pi].
roll(q) == IF (q % tau) > pi THEN (q % tau) - tau ELSE q % tau

\* Line 343: PoseMeters(x, y, roll).
PoseMeters(m) == <<m.x, m.y, roll(m.q)>>

\* PoseMeters.make_relative(origin): the pose as seen from the origin, the
\* yaw difference brought back to one turn.
make_relative(pose, origin) ==
    <<pose[1] - origin[1], pose[2] - origin[2], remainder(pose[3] - origin[3], tau)>>

\* get_odom(msg).
get_odom(m) ==
    /\ odom_msg' = m
    /\ IF g_first_odom = NoOdom
       THEN /\ g_first_odom' = PoseMeters(m)
            /\ new_odom' = PoseMeters(m)
       ELSE /\ new_odom' = make_relative(PoseMeters(m), g_first_odom)
            /\ UNCHANGED g_first_odom
    /\ UNCHANGED ppvars
    /\ UNCHANGED panovars
    /\ UNCHANGED motionvars
    /\ UNCHANGED lidarvars
    /\ UNCHANGED mergevars

InitOdom ==
    /\ PurePursuitAtRest
    /\ PanoAtRest
    /\ MotionAtRest
    /\ LidarAtRest
    /\ MergeAtRest
    /\ OdomAtRest
    /\ g_use_depth_pointcloud = FALSE

NextOdom == \E m \in OdomMsgs : get_odom(m)

SpecOdom == InitOdom /\ [][NextOdom]_vars

----------------------------------------------------------------------------
(* Properties of PurePursuit.                                              *)

IsSuffix(s, t) ==
    /\ Len(s) <= Len(t)
    /\ s = SubSeq(t, Len(t) - Len(s) + 1, Len(t))

\* The waypoints of path within 0.15 m of the pose c, by index.
NearIndices(path, c) == {i \in 1..Len(path) : Near(c, path[i])}

Least(S) == CHOOSE i \in S : \A j \in S : i <= j

Greatest(S) == CHOOSE i \in S : \A j \in S : i >= j

\* C1: the first call of compute_command that gets past an empty path
\* (last_time still 0) takes dt = 0 and returns a command; it does not fail.
C1_FirstCallReturns ==
    [][(op' = "compute_command" /\ last_time = 0 /\ loc'.timed)
          => (loc'.dt = 0 /\ ret'.kind = "return")]_vars

\* C7: the path after compute_command is a suffix of the path before it, and
\* as long as the planner does not replace the path it stays a suffix of the
\* path the planner set: it never grows and no pruned waypoint comes back.
C7_PathIsSuffix ==
    /\ [][op' = "compute_command" => IsSuffix(path_meters', path_meters)]_vars
    /\ [](IsSuffix(path_meters, planned))

\* C7 happens: a call pruned a waypoint of a planned path of two and a later
\* call, which returned a command, left the rest as it was.
C7_Witness ==
    /\ op = "compute_command"
    /\ Len(planned) = 2
    /\ path_in = <<planned[2]>>
    /\ path_meters = path_in
    /\ ret.kind = "return"

\* C8: pare_path deletes the waypoints up to and including the first one
\* within 0.15 m of the pose and nothing else, and leaves the path unchanged
\* when no waypoint is that near.
C8_PareThroughFirstNear ==
    op = "compute_command" =>
        LET near == NearIndices(path_in, cur)
        IN  IF near = {} THEN path_meters = path_in
            ELSE path_meters = SubSeq(path_in, Least(near) + 1, Len(path_in))

\* C8 happens: both waypoints of a path of two were within 0.15 m, and the
\* second was kept.
C8_Witness ==
    /\ op = "compute_command"
    /\ Len(path_in) = 2
    /\ NearIndices(path_in, cur) = {1, 2}
    /\ path_meters = <<path_in[2]>>

\* C9: compute_command returns exactly (0, 0) whenever the path is empty
\* after pruning, also when this call pruned the last waypoint.
C9_EmptyPathStops ==
    (op = "compute_command" /\ path_meters = <<>>) =>
        (ret.kind = "return" /\ ret.fwd = 0 /\ ret.ang = 0)

\* C9 happens: the call pruned the whole of a path of two and returned (0, 0).
C9_Witness ==
    /\ op = "compute_command"
    /\ Len(path_in) = 2
    /\ path_meters = <<>>
    /\ ret.kind = "return"
    /\ ret.fwd = 0
    /\ ret.ang = 0

\* Root k of segment i lies on the segment.
OnSegment(path, c, dist, i, k) ==
    /\ Discriminant(path, c, dist, i) >= 0
    /\ valid(path, c, dist, i, k)

\* The segments of path with a root on the segment.
HitSegments(path, c, dist) ==
    {i \in 1..(Len(path) - 1) :
        \E k \in {0, 1} : OnSegment(path, c, dist, i, k)}

\* C10: on a path of two or more waypoints choose_lookahead_pt returns None
\* when no segment has a valid root, and otherwise the point of the last
\* segment that has one, at the lower root q[0] when both its roots are valid
\* and at its only valid root when one is.
C10_LastSegmentLowerRoot ==
    (op = "choose_lookahead_pt" /\ Len(path_meters) >= 2) =>
        LET hit == HitSegments(path_meters, cur, lookahead_dist)
        IN  IF hit = {} THEN lookahead_pt = NonePt
            ELSE LET i == Greatest(hit)
                     roots == {k \in {0, 1} :
                                 OnSegment(path_meters, cur, lookahead_dist, i, k)}
                 IN  lookahead_pt = IntersectionPt(i, Least(roots))

\* C10 happens: both segments of a path of three waypoints have a valid
\* root, the circle cuts the second segment twice, and the point returned is
\* the lower root of the second.
C10_Witness ==
    /\ op = "choose_lookahead_pt"
    /\ Len(path_meters) = 3
    /\ HitSegments(path_meters, cur, lookahead_dist) = {1, 2}
    /\ Discriminant(path_meters, cur, lookahead_dist, 2) > 0
    /\ OnSegment(path_meters, cur, lookahead_dist, 2, 0)
    /\ OnSegment(path_meters, cur, lookahead_dist, 2, 1)
    /\ lookahead_pt = IntersectionPt(2, 0)

----------------------------------------------------------------------------
(* Properties of get_pano_meas and the measurement buffers.                *)

\* What one run of get_pano_meas is to put in the log.
PanoOrder ==
    [i \in 1..12 |->
        <<CASE i % 3 = 1 -> "rgb" [] i % 3 = 2 -> "depth" [] OTHER -> "turn_right",
          (i + 2) \div 3>>]

IsRgb(e) == e.ev = "rgb"

IsDepth(e) == e.ev = "depth"

RgbLog == SelectSeq(log, IsRgb)

DepthLog == SelectSeq(log, IsDepth)

\* The entries of run r.
RunLog(r) == SelectSeq(log, LAMBDA e : e.run = r)

\* C2: one run of get_pano_meas makes four captures and commands four
\* turn_right pivots in strict alternation, capture k before pivot k, and
\* nothing after the fourth pivot.
C2_CapturesAndPivotsAlternate ==
    \A r \in 1..run :
        LET l == RunLog(r)
        IN  /\ Len(l) <= 12
            /\ \A i \in 1..Len(l) : <<l[i].ev, l[i].k>> = PanoOrder[i]
            /\ (r < run \/ pc = "idle") => Len(l) = 12

\* C2 happens: a run of get_pano_meas has returned.
C2_Witness ==
    /\ run = 1
    /\ pc = "idle"
    /\ Len(log) = 12

\* C3: the RGB frame returned by capture k = 2, 3, 4 was received after
\* pivot k-1 completed.
C3_RgbFrameIsFresh ==
    \A i \in 1..Len(log) :
        (log[i].ev = "rgb" /\ log[i].k >= 2) => log[i].stamp = log[i].at

\* C4 as stated: once a capture has returned, RGB or depth, the buffer it
\* read is None until a later message of its topic is written to it.
C4_BufferNoneAfterCapture ==
    /\ RgbLog # <<>> =>
          \/ g_most_recent_rgb_meas = NoMsg
          \/ g_most_recent_rgb_meas.id > RgbLog[Len(RgbLog)].id
    /\ DepthLog # <<>> =>
          \/ g_most_recent_depth_meas = NoMsg
          \/ g_most_recent_depth_meas.id > DepthLog[Len(DepthLog)].id

\* C4 amended: once pop_from_RGB_buffer has returned, the RGB buffer is None
\* until a later RGB message is written to it, and only get_RGB_image makes
\* it other than None; pop_from_depth_buffer sets the depth buffer to None
\* when it is entered and not after reading, so that on its return the buffer
\* still holds the message returned or a later one.
C4_RgbNoneAfterDepthNoneBefore ==
    /\ [](RgbLog # <<>> =>
            \/ g_most_recent_rgb_meas = NoMsg
            \/ g_most_recent_rgb_meas.id > RgbLog[Len(RgbLog)].id)
    /\ [][(g_most_recent_rgb_meas = NoMsg /\ g_most_recent_rgb_meas' # NoMsg)
             => rgb_seq' = rgb_seq + 1]_vars
    /\ [][(pc = "depth_blank" /\ pc' # pc)
             => g_most_recent_depth_meas' = NoMsg]_vars
    /\ [](pc = "pivot" =>
            /\ g_most_recent_depth_meas # NoMsg
            /\ g_most_recent_depth_meas.id >= DepthLog[Len(DepthLog)].id)

\* C4 happens: a capture has returned its RGB frame and its depth message;
\* the RGB buffer is None and the depth buffer holds the message returned.
C4_Witness ==
    /\ pc = "pivot"
    /\ g_most_recent_rgb_meas = NoMsg
    /\ g_most_recent_depth_meas.id = DepthLog[Len(DepthLog)].id

\* C5: whatever the interleaving of the ingest callbacks with the captures,
\* no message is returned by two captures.
C5_NoMessageReturnedTwice ==
    \A i, j \in 1..Len(log) :
        (i < j /\ log[i].ev = log[j].ev /\ log[i].ev # "turn_right")
            => log[i].id # log[j].id

\* C5 happens: captures returned two RGB frames and two depth messages, and
\* an RGB frame delivered between two of them was returned by none.
C5_Witness ==
    /\ Len(RgbLog) >= 2
    /\ Len(DepthLog) >= 2
    /\ RgbLog[2].id > RgbLog[1].id + 1

\* C6: a capture waiting on an empty buffer ends only through a message
\* arriving: it leaves its wait only with a message in the buffer, it stays
\* in the wait through every step that delivers none, and once a message of
\* its topic is in the buffer it returns.
C6_WaitEndsOnlyOnMessage ==
    /\ [][(pc = "rgb_wait" /\ pc' # pc) => g_most_recent_rgb_meas # NoMsg]_vars
    /\ [][(pc = "depth_wait" /\ pc' # pc) => g_most_recent_depth_meas # NoMsg]_vars
    /\ [][(pc = "rgb_wait" /\ g_most_recent_rgb_meas = NoMsg /\ rgb_seq' = rgb_seq)
             => (pc' = pc /\ log' = log /\ g_most_recent_rgb_meas' = NoMsg)]_vars
    /\ [][(pc = "depth_wait" /\ g_most_recent_depth_meas = NoMsg
              /\ depth_seq' = depth_seq)
             => (pc' = pc /\ log' = log /\ g_most_recent_depth_meas' = NoMsg)]_vars
    /\ (pc = "rgb_wait" /\ g_most_recent_rgb_meas # NoMsg) ~> (pc = "depth_blank")
    /\ (pc = "depth_wait" /\ g_most_recent_depth_meas # NoMsg) ~> (pc = "pivot")

\* C6 happens: a depth capture found its buffer empty, slept, and returned
\* after a message arrived.
C6_Witness ==
    /\ pc = "pivot"
    /\ warned
    /\ DepthLog # <<>>

\* The last call of compute_command found the path at no radius up to
\* lookahead_dist_max and fell back (lines 41-43).
FellBack ==
    /\ op = "compute_command"
    /\ loc.timed
    /\ lookahead_dist > lookahead_dist_max

\* C11 as stated: when no radius up to the maximum finds the path, the point
\* compute_command steers toward is the remaining waypoint nearest the pose.
C11_FallbackIsNearest ==
    FellBack =>
        /\ lookahead_pt.kind = "waypoint"
        /\ \A j \in 1..Len(path_meters) :
              Dist2(cur, path_meters[lookahead_pt.seg]) <= Dist2(cur, path_meters[j])

\* C11 amended: when no radius up to the maximum finds the path, the point
\* compute_command steers toward is the first remaining waypoint,
\* path_meters[0], whether or not another waypoint is nearer the pose.
C11_FallbackIsFirst ==
    FellBack => lookahead_pt = WaypointPt(1)

\* C11 happens: the call fell back to the first waypoint while the second
\* was nearer the pose.
C11_Witness ==
    /\ FellBack
    /\ Len(path_meters) = 2
    /\ Dist2(cur, path_meters[2]) < Dist2(cur, path_meters[1])
    /\ lookahead_pt = WaypointPt(1)
    /\ ret.kind = "return"

\* C12 as stated: the heading error of compute_command lies in (-pi, pi];
\* -pi is never produced.
C12_HeadingErrorAbovePi ==
    (op = "compute_command" /\ loc.timed) => (- pi < loc.beta /\ loc.beta <= pi)

\* C12 amended: the heading error of compute_command is the bearing minus
\* the pose heading brought by a whole number of turns into the closed
\* interval [-pi, pi]; -pi is produced, as for a bearing of 0 and a heading
\* of pi.
C12_HeadingErrorWithinPi ==
    (op = "compute_command" /\ loc.timed) =>
        /\ - pi <= loc.beta
        /\ loc.beta <= pi
        /\ (loc.beta - (loc.gb - cur[3])) % tau = 0
        /\ (loc.gb = 0 /\ cur[3] = pi) => loc.beta = - pi

\* C12 happens: a call that returned a command computed a heading error of
\* -pi.
C12_Witness ==
    /\ op = "compute_command"
    /\ loc.timed
    /\ ret.kind = "return"
    /\ loc.gb = 0
    /\ cur[3] = pi
    /\ loc.beta = - pi

\* C13: the forward velocity compute_command returns on a non-empty path is
\* at least min_speed and at most base_speed + min_speed, is
\* base_speed + min_speed at a heading error of 0 and min_speed at one of
\* magnitude pi, and does not grow with the magnitude of the heading error.
C13_ForwardSpeedBounds ==
    /\ (op = "compute_command" /\ loc.timed /\ ret.kind = "return") =>
          /\ ret.fwd > 0
          /\ ret.fwd >= min_speed * Pow(pi, 12)
          /\ ret.fwd <= (base_speed + min_speed) * Pow(pi, 12)
          /\ loc.beta = 0 => ret.fwd = (base_speed + min_speed) * Pow(pi, 12)
          /\ Abs(loc.beta) = pi => ret.fwd = min_speed * Pow(pi, 12)
    /\ \A b1, b2 \in (- pi)..pi :
          Abs(b1) <= Abs(b2) => forward_speed(b1) >= forward_speed(b2)

\* C13 happens: a call returned the least forward velocity, at a heading
\* error of magnitude pi.
C13_Witness ==
    /\ op = "compute_command"
    /\ loc.timed
    /\ ret.kind = "return"
    /\ Abs(loc.beta) = pi
    /\ ret.fwd = min_speed * Pow(pi, 12)

----------------------------------------------------------------------------
(* Properties of the motion planning node.                                 *)

\* C14 as stated: a forward or angular velocity beyond its limit in
\* magnitude is returned at the limit with its sign kept (forward below
\* -limit gives -limit), and one within the limit is unchanged.
C14_ClampKeepsSign ==
    handled = "publish_command" =>
        /\ requested.fwd < - g_max_fwd_cmd => cmd_pub.fwd = - g_max_fwd_cmd
        /\ requested.fwd > g_max_fwd_cmd => cmd_pub.fwd = g_max_fwd_cmd
        /\ Abs(requested.fwd) <= g_max_fwd_cmd => cmd_pub.fwd = requested.fwd
        /\ requested.ang < - g_max_ang_cmd => cmd_pub.ang = - g_max_ang_cmd
        /\ requested.ang > g_max_ang_cmd => cmd_pub.ang = g_max_ang_cmd
        /\ Abs(requested.ang) <= g_max_ang_cmd => cmd_pub.ang = requested.ang

\* C14 amended: the angular velocity is held within [-limit, limit] with
\* its sign kept, and the forward velocity within [0, limit]: a forward
\* velocity above the limit gives the limit, a negative one gives 0, and a
\* component within its interval is unchanged.
C14_ClampForwardFromZero ==
    handled = "publish_command" =>
        /\ requested.fwd < 0 => cmd_pub.fwd = 0
        /\ requested.fwd > g_max_fwd_cmd => cmd_pub.fwd = g_max_fwd_cmd
        /\ (0 <= requested.fwd /\ requested.fwd <= g_max_fwd_cmd)
              => cmd_pub.fwd = requested.fwd
        /\ requested.ang < - g_max_ang_cmd => cmd_pub.ang = - g_max_ang_cmd
        /\ requested.ang > g_max_ang_cmd => cmd_pub.ang = g_max_ang_cmd
        /\ Abs(requested.ang) <= g_max_ang_cmd => cmd_pub.ang = requested.ang

\* C14 happens: a command with forward below -limit and angular below
\* -limit was published as (0, -limit).
C14_Witness ==
    /\ handled = "publish_command"
    /\ requested.fwd < - g_max_fwd_cmd
    /\ requested.ang < - g_max_ang_cmd
    /\ cmd_pub = Cmd(0, - g_max_ang_cmd)

\* C15: every command the node publishes has forward in [0, g_max_fwd_cmd]
\* and angular in [-g_max_ang_cmd, g_max_ang_cmd], whichever callback
\* published it, and a command plan_path_to_goal clamped is published as it
\* is.
C15_PublishedWithinLimits ==
    /\ cmd_pub.kind = "cmd" =>
          /\ 0 <= cmd_pub.fwd
          /\ cmd_pub.fwd <= g_max_fwd_cmd
          /\ - g_max_ang_cmd <= cmd_pub.ang
          /\ cmd_pub.ang <= g_max_ang_cmd
    /\ handled = "planned" =>
          /\ requested = Cmd(clamp(ret.fwd, 0, g_max_fwd_cmd),
                             clamp(ret.ang, - g_max_ang_cmd, g_max_ang_cmd))
          /\ cmd_pub = requested

\* C15 happens: compute_command returned a command beyond both limits and
\* the node published it at the limits.
C15_Witness ==
    /\ handled = "planned"
    /\ ret.kind = "return"
    /\ ret.fwd > g_max_fwd_cmd
    /\ ret.ang < - g_max_ang_cmd
    /\ cmd_pub = Cmd(g_max_fwd_cmd, - g_max_ang_cmd)

\* C16: when there is a goal and the planner returns no path, the command
\* published for that estimate is (0, 0), the callback returns and the node
\* goes on taking messages, and the path, the integral, the previous error
\* and the timestamp of the controller are left as they were.
C16_PlannerFailureStops ==
    /\ [][handled' = "no_path" =>
            /\ cmd_pub' = Cmd(0, 0)
            /\ requested' = Cmd(0, 0)
            /\ UNCHANGED <<path_meters, integ, err_prev, last_time>>]_vars
    /\ [](handled = "no_path" => ENABLED get_goal_pos)

\* C16 happens: the planner failed while the controller held a path, an
\* integral and a timestamp, and (0, 0) was published.
C16_Witness ==
    /\ handled = "no_path"
    /\ path_meters # <<>>
    /\ integ # 0
    /\ last_time # 0
    /\ cmd_pub = Cmd(0, 0)

(***************************************************************************)
(* Properties of get_lidar.                                                *)
(***************************************************************************)

\* The beams of the scan whose range lies within [range_min, range_max].
ValidBeams == {i \in 0..(Len(msg.ranges) - 1) :
                 msg.range_min <= msg.ranges[i + 1] /\ msg.ranges[i + 1] <= msg.range_max}

\* The cell beam i hits, and the cell at the maximum range along its ray.
HitCell(i) == ray_cell(g_local_occ_size, msg.ranges[i + 1], beam_angle(msg, i))

MaxRangeCell(i) == ray_cell(g_local_occ_size, msg.range_max, beam_angle(msg, i))

\* The discretized line of beam i, from the hit cell to the max-range cell.
LineOf(i) == bresenham(HitCell(i)[1], HitCell(i)[2], MaxRangeCell(i)[1], MaxRangeCell(i)[2])

OnImage(cell) == /\ cell[1] \in 0..(g_local_occ_size - 1)
                 /\ cell[2] \in 0..(g_local_occ_size - 1)

\* The cells of the line of beam i before its first cell off the image.
LineBeforeLeaving(i) ==
    {LineOf(i)[k] : k \in {k \in 1..Len(LineOf(i)) : \A j \in 1..k : OnImage(LineOf(i)[j])}}

\* The line runs from the first cell to the last through neighbouring cells.
IsLine(line, from, to) ==
    /\ Len(line) >= 1
    /\ line[1] = from
    /\ line[Len(line)] = to
    /\ \A k \in 1..(Len(line) - 1) :
        /\ Abs(line[k + 1][1] - line[k][1]) <= 1
        /\ Abs(line[k + 1][2] - line[k][2]) <= 1
        /\ line[k + 1] # line[k]

\* The cells from the centre of the image up to, not including, the hit cell
\* of beam i.
BeforeHit(i) ==
    LET center == g_local_occ_size \div 2
        line == bresenham(center, center, HitCell(i)[1], HitCell(i)[2])
    IN  {line[k] : k \in 1..Len(line)} \ {HitCell(i)}

ForwardWindow ==
    {cell \in (0..(g_local_occ_size - 1)) \X (0..(g_local_occ_size - 1)) :
        /\ g_local_occ_size \div 3 <= cell[1]
        /\ cell[1] < (2 * g_local_occ_size) \div 3
        /\ (2 * g_local_occ_size) \div 3 <= cell[2]}

\* C18: the forward-obstruction flag is true exactly when the mean of the
\* forward window, whose cells hold 1 when free and 0 when occupied, is at
\* most 0.75, that is when at least a quarter of its cells are occupied; on an
\* all-free grid it is false and on a fully occupied window it is true.
C18_FlagIsWindowMeanAtMostThreeQuarters ==
    scanned = "get_lidar" =>
        /\ g_lidar_detects_robot_facing_wall <=>
            4 * Cardinality(ForwardWindow \cap g_lidar_local_occ_meas)
                >= Cardinality(ForwardWindow)
        /\ g_lidar_local_occ_meas = {} => ~ g_lidar_detects_robot_facing_wall
        /\ ForwardWindow \subseteq g_lidar_local_occ_meas =>
            g_lidar_detects_robot_facing_wall

\* A scan leaves the window with occupied cells, yet too few to raise the flag.
C18_Witness ==
    /\ scanned = "get_lidar"
    /\ ForwardWindow \cap g_lidar_local_occ_meas # {}
    /\ ~ g_lidar_detects_robot_facing_wall

\* Scans that raise the flag with the window partly free and with the window
\* fully occupied.
C18_WitnessPartly ==
    /\ scanned = "get_lidar"
    /\ ForwardWindow \ g_lidar_local_occ_meas # {}
    /\ g_lidar_detects_robot_facing_wall

C18_WitnessFully ==
    /\ scanned = "get_lidar"
    /\ ForwardWindow \subseteq g_lidar_local_occ_meas

(***************************************************************************)
(* Properties of the scan callback of runner_node.py.                      *)
(***************************************************************************)

\* The flag the most recent scan yields: at least a quarter of the forward
\* window lies on the lines its beams mark.
FlagOfScan ==
    4 * Cardinality(ForwardWindow \cap UNION {LineBeforeLeaving(i) : i \in ValidBeams})
        >= Cardinality(ForwardWindow)

C19_WitnessLowered ==
    /\ scanned = "runner_done"
    /\ ~ obstacle_in_front_of_robot
    /\ g_lidar_local_occ_meas # {}

(***************************************************************************)
(* Properties of the merge of get_pano_meas.                               *)
(***************************************************************************)

\* The four grids that are merged: the front one as captured, then the
\* rotated right, back and left ones.
MergedGrids == <<local_occ_east>> \o rotated_local_occ

\* The captures as taken: front, right, back, left.
Captures == <<local_occ_east, local_occ_south, local_occ_west, local_occ_north>>

\* The image turned by k quarter turns, cell by cell.
Turned(img, k) ==
    LET q == k % 4
    IN  [n |-> img.n,
         occ |-> {IF q = 0 THEN cell
                  ELSE IF q = 1 THEN <<img.n - 1 - cell[2], cell[1]>>
                  ELSE IF q = 2 THEN <<img.n - 1 - cell[1], img.n - 1 - cell[2]>>
                  ELSE <<cell[2], img.n - 1 - cell[1]>> : cell \in img.occ}]

CellValue(img, cell) == IF cell \in img.occ THEN 0 ELSE 1

\* The cells of the merged grid.
MergedCells == (0..(merged_local_occ.n - 1)) \X (0..(merged_local_occ.n - 1))

\* The orders in which the four aligned grids can be combined.
Orders == {f \in [1..4 -> 1..4] : \A j, k \in 1..4 : j # k => f[j] # f[k]}

\* The views that have a cell occupied.
Suppliers(cell) == {k \in 1..4 : cell \in MergedGrids[k].occ}

\* C21: the merged grid holds in every cell the minimum over the four aligned
\* grids: a cell is occupied (0) exactly when at least one view has it
\* occupied, whichever view that is, and combining the views in any other
\* order gives the same grid.
C21_MergeIsElementwiseMinimum ==
    merged =>
        /\ \A cell \in MergedCells :
            /\ \E k \in 1..4 :
                CellValue(merged_local_occ, cell) = CellValue(MergedGrids[k], cell)
            /\ \A k \in 1..4 :
                CellValue(merged_local_occ, cell) <= CellValue(MergedGrids[k], cell)
            /\ cell \in merged_local_occ.occ <=> Suppliers(cell) # {}
        /\ merged_local_occ.occ \subseteq MergedCells
        /\ \A f \in Orders :
            min_of([k \in 1..4 |-> MergedGrids[f[k]]]) = merged_local_occ

\* Two cells of the merged grid are occupied, one supplied by the front view
\* alone and one by the back view alone, with the last view free.
C21_Witness ==
    /\ merged
    /\ \E c1, c2 \in merged_local_occ.occ :
        /\ Suppliers(c1) = {1}
        /\ Suppliers(c2) = {3}
    /\ MergedGrids[4].occ = {}

\* The four corner blocks of the merged grid, each a third of the edge.
CornerBlocks ==
    LET n == merged_local_occ.n
        low == 0..(n \div 3 - 1)
        high == ((2 * n) \div 3)..(n - 1)
    IN  {low \X low, low \X high, high \X high, high \X low}

\* The cells of a block that the merged grid has occupied.
OccupiedIn(block) == block \cap merged_local_occ.occ

\* The block is exactly a tenth occupied.
AtThreshold(block) == 10 * Cardinality(OccupiedIn(block)) = Cardinality(block)

C22_WitnessLeft ==
    /\ merged
    /\ occ_dtype = "float64"
    /\ \E block \in CornerBlocks :
        /\ AtThreshold(block)
        /\ pano_local_occ_meas.occ \cap block = OccupiedIn(block)
    /\ \E block \in CornerBlocks :
        /\ OccupiedIn(block) # {}
        /\ 10 * Cardinality(OccupiedIn(block)) < Cardinality(block)
        /\ pano_local_occ_meas.occ \cap block = OccupiedIn(block)

(***************************************************************************)
(* Properties of get_odom.                                                 *)
(***************************************************************************)

\* The pose of the last message as seen from the stored origin.
RelativeToFirst ==
    LET yaw == IF odom_msg.q > pi THEN odom_msg.q - tau ELSE odom_msg.q
        turn == yaw - g_first_odom[3]
    IN  <<odom_msg.x - g_first_odom[1], odom_msg.y - g_first_odom[2],
          IF turn > pi THEN turn - tau ELSE IF turn < -pi THEN turn + tau ELSE turn>>

\* C23: every pose handed to set_new_odom is the pose of the message relative
\* to the first odometry pose ever received, the first one included, and
\* g_first_odom, once set, never changes.
C23_EveryPoseRelativeToFirst ==
    /\ [](new_odom # NoOdom => new_odom = RelativeToFirst)
    /\ [][g_first_odom # NoOdom => g_first_odom' = g_first_odom]_vars

\* What get_odom keeps: g_first_odom is set by the first message and never
\* changes, and every pose handed on after the first is relative to it.
C23_OriginFixedLaterPosesRelative ==
    /\ [][g_first_odom # NoOdom => g_first_odom' = g_first_odom]_vars
    /\ [][g_first_odom = NoOdom => g_first_odom' = new_odom']_vars
    /\ [][g_first_odom # NoOdom => new_odom' = RelativeToFirst']_vars

\* The first message, away from the origin, has been handed on as received.
C23_FirstPoseHandedAbsolute ==
    /\ new_odom # NoOdom
    /\ new_odom = g_first_odom
    /\ new_odom # <<0, 0, 0>>
    /\ new_odom # RelativeToFirst

(***************************************************************************)
(* Properties of get_localization_est.                                     *)
(***************************************************************************)

\* The ways a call of get_localization_est ends.
EstimateEndings == {"no_goal", "planned", "no_path", "raised"}

\* C24: every localization estimate that get_localization_est receives ends
\* with a command published, whatever the goal, the result of the planner and
\* the state of the controller, the first estimate after a goal is set
\* included.
C24_EveryEstimatePublishes ==
    /\ [](handled \in EstimateEndings => handled # "raised" /\ cmd_pub # NoCmd)
    /\ [][handled' \in EstimateEndings /\ handled' # handled =>
              requested' # NoCmd /\ handled' # "raised"]_vars

\* The first estimate after a goal was set, with a planned path that the
\* pose is not near, ended in an exception of compute_command and nothing
\* has been published.
C24_FirstEstimateRaises ==
    /\ handled = "raised"
    /\ goal_pos_px # NoGoal
    /\ cmd_pub = NoCmd
    /\ ret.kind = "raise"
    /\ Len(path_meters) >= 1

(***************************************************************************)
(* Properties of the lookahead search of compute_command.                  *)
(***************************************************************************)

\* The most radii the search can try.
SearchTries == 0..12

\* The radius of try k: the initial radius grown k times by 1.25.
RECURSIVE TriedRadius(_)
TriedRadius(k) ==
    IF k = 0 THEN lookahead_dist_init ELSE (TriedRadius(k - 1) * 5) \div 4

\* The number of radii tried: the radius held after the loop is the one the
\* next try would have used.
TriesMade == CHOOSE n \in SearchTries : TriedRadius(n) = lookahead_dist

\* What try k yields on the path and the pose of the call.
YieldOf(k) == choose_lookahead_pt(path_meters, cur, TriedRadius(k))

\* C25: the search tries the initial radius, then 1.25 times it, and so on in
\* increasing order; every radius before the last one tried yielded no point,
\* no radius tried is greater than the maximum, the search ends after a
\* bounded number of tries, and when no tried radius yielded a point the
\* lookahead point is the first remaining waypoint.
C25_SearchGrowsStopsAtFirstHit ==
    op = "lookahead_search" =>
        /\ \E n \in SearchTries : n >= 1 /\ TriedRadius(n) = lookahead_dist
        /\ \A k \in 0..(TriesMade - 1) :
            /\ TriedRadius(k) <= lookahead_dist_max
            /\ TriedRadius(k) < TriedRadius(k + 1)
            /\ k < TriesMade - 1 => YieldOf(k) = NonePt
        /\ IF YieldOf(TriesMade - 1) # NonePt
           THEN lookahead_pt = YieldOf(TriesMade - 1)
           ELSE /\ lookahead_dist > lookahead_dist_max
                /\ lookahead_pt = WaypointPt(1)

\* The first radius yielded nothing and a later one an intersection.
C25_Witness ==
    /\ op = "lookahead_search"
    /\ TriesMade >= 2
    /\ lookahead_pt.kind = "intersection"

\* No radius up to the maximum yielded a point and the search fell back.
C25_WitnessFallback ==
    /\ op = "lookahead_search"
    /\ lookahead_dist > lookahead_dist_max
    /\ YieldOf(TriesMade - 1) = NonePt
    /\ lookahead_pt = WaypointPt(1)

(***************************************************************************)
(* Further properties of the measurement buffers of runner_node.py.        *)
(***************************************************************************)

\* C26: pop_from_depth_buffer blanks the depth buffer when it is entered and
\* only a delivery fills it again, so the message it returns was written
\* after the call began; the depth message of every capture was delivered at
\* the heading of that capture, after the pivot before it had completed.
C26_DepthWrittenAfterCallBegan ==
    /\ [][(pc = "depth_blank" /\ pc' # pc) => g_most_recent_depth_meas' = NoMsg]_vars
    /\ [][(g_most_recent_depth_meas' # g_most_recent_depth_meas
              /\ g_most_recent_depth_meas' # NoMsg)
             => (depth_seq' = depth_seq + 1
                 /\ g_most_recent_depth_meas' = [id |-> depth_seq + 1,
                                                 stamp |-> heading_clock])]_vars
    /\ []((pc \in {"depth_wait", "depth_return"} /\ g_most_recent_depth_meas # NoMsg)
            => g_most_recent_depth_meas.stamp = heading_clock)
    /\ [](\A i \in 1..Len(log) : log[i].ev = "depth" => log[i].stamp = log[i].at)
    /\ [][(pc = "depth_return" /\ pc' # pc)
             => (log'[Len(log')].id = g_most_recent_depth_meas.id
                 /\ log'[Len(log')].stamp = heading_clock)]_vars

\* A depth message delivered before the second capture entered
\* pop_from_depth_buffer was blanked, and the capture returned a later one.
C26_Witness ==
    /\ Len(DepthLog) >= 2
    /\ DepthLog[2].k = 2
    /\ DepthLog[2].id > DepthLog[1].id + 1
    /\ DepthLog[2].stamp = DepthLog[2].at

C27_WitnessErasedUnread ==
    /\ pc = "rgb_return"
    /\ g_most_recent_rgb_meas = NoMsg
    /\ cv_img_meas # NoMsg
    /\ cv_img_meas.id < rgb_seq

----------------------------------------------------------------------------
(* Further properties of the controller state of pure_pursuit.py.          *)

\* C28: a call of compute_command whose pared path is empty returns (0, 0)
\* and leaves integ, err_prev and last_time as they were.
C28_NoPathLeavesControllerState ==
    [][(op' = "compute_command" /\ Len(pare_path(path_meters, cur')) < 1)
          => (/\ ret' = no_path_command
              /\ integ' = integ
              /\ err_prev' = err_prev
              /\ last_time' = last_time)]_vars

\* C28 happens: a call on an emptied path returned (0, 0) with an integral,
\* a previous error and a timestamp left by earlier calls.
C28_Witness ==
    /\ op = "compute_command"
    /\ path_meters = <<>>
    /\ ret = no_path_command
    /\ integ # 0
    /\ err_prev # 0
    /\ last_time > 1

\* C29: a call of compute_command that raises leaves the path, integ,
\* err_prev and last_time exactly as they were before the call.
C29_FailedCallLeavesState ==
    [][(op' = "compute_command" /\ ret' = Raised)
          => (/\ path_meters' = path_meters
              /\ integ' = integ
              /\ err_prev' = err_prev
              /\ last_time' = last_time)]_vars

\* C29 fails: a call raised on line 62 after line 27 pared the path and
\* line 54 stamped last_time.
C29_FailedCallChangedState ==
    /\ op = "compute_command"
    /\ ret = Raised
    /\ Len(path_meters) < Len(planned)
    /\ last_time # 0
    /\ integ = 0
    /\ err_prev = 0

\* C30: every call of compute_command that keeps at least one waypoint after
\* paring returns a (forward, angular) command, whatever the pose and the
\* path.
C30_RemainingWaypointGivesCommand ==
    [][(op' = "compute_command" /\ Len(path_meters') >= 1) => ret'.kind = "return"]_vars

\* C30 fails: a call with a waypoint left, the first since the class was
\* loaded, found a lookahead point and raised on line 62.
C30_CallWithWaypointRaised ==
    /\ op = "compute_command"
    /\ Len(path_meters) >= 1
    /\ lookahead_pt # NonePt
    /\ loc.timed
    /\ loc.dt = 0
    /\ ret = Raised

(***************************************************************************)
(* Further properties of get_lidar.                                        *)
(***************************************************************************)

\* The beams whose hit cell is on the image.
HitOnImage == {i \in ValidBeams : OnImage(HitCell(i))}

\* Beam i points along an axis of the image.
AlongAxis(i) == beam_angle(msg, i)[1] % 2 = 0 /\ beam_angle(msg, i)[2] = 0

\* C31: a beam in range whose hit cell is off the image marks no cell: the
\* occupied cells are those of the beams that hit on the image, a scan whose
\* beams all hit off the image leaves the grid free, and a beam along an axis
\* with a range of more than half the side of the grid hits off the image.
C31_HitOffImageMarksNothing ==
    scanned = "get_lidar" =>
        /\ \A i \in ValidBeams \ HitOnImage : beam_cells(g_local_occ_size, msg, i) = {}
        /\ g_lidar_local_occ_meas =
               UNION {beam_cells(g_local_occ_size, msg, i) : i \in HitOnImage}
        /\ HitOnImage = {} => g_lidar_local_occ_meas = {}
        /\ \A i \in ValidBeams :
               (AlongAxis(i) /\ 2 * msg.ranges[i + 1] > g_local_occ_size) => i \notin HitOnImage

\* C31 happens: the one beam in range points along an axis with a range of
\* more than half the side, its hit cell is off the image on the low side,
\* and the grid is left free.
C31_Witness ==
    /\ scanned = "get_lidar"
    /\ \E i \in ValidBeams :
        /\ ValidBeams = {i}
        /\ AlongAxis(i)
        /\ 2 * msg.ranges[i + 1] > g_local_occ_size
        /\ (HitCell(i)[1] < 0 \/ HitCell(i)[2] < 0)
    /\ g_lidar_local_occ_meas = {}

\* A beam that hits off the image marks nothing next to a beam that marks
\* cells.
C31_WitnessBesideMarkingBeam ==
    /\ scanned = "get_lidar"
    /\ ValidBeams \ HitOnImage # {}
    /\ g_lidar_local_occ_meas # {}

\* The cells of the whole line of beam i that are on the image.
LineOnImage(i) == {LineOf(i)[k] : k \in {k \in 1..Len(LineOf(i)) : OnImage(LineOf(i)[k])}}

\* C32: for every beam in range the cells get_lidar marks are all the cells
\* of the whole line from the hit cell to the max-range cell that are on the
\* image, and a line that has left the image does not come back onto it.
C32_StoppingAtFirstCellOffLosesNothing ==
    scanned = "get_lidar" =>
        /\ \A i \in ValidBeams : beam_cells(g_local_occ_size, msg, i) = LineOnImage(i)
        /\ g_lidar_local_occ_meas = UNION {LineOnImage(i) : i \in ValidBeams}
        /\ \A i \in ValidBeams :
               \A j, k \in 1..Len(LineOf(i)) :
                   (j < k /\ ~ OnImage(LineOf(i)[j])) => ~ OnImage(LineOf(i)[k])

\* C32 happens: a beam off the axes marked its hit cell and an edge cell, and
\* its line then runs on off the image to the max-range cell.
C32_Witness ==
    /\ scanned = "get_lidar"
    /\ \E i \in ValidBeams :
        /\ ~ AlongAxis(i)
        /\ HitCell(i) # MaxRangeCell(i)
        /\ Cardinality(LineOnImage(i)) >= 2
        /\ Len(LineOf(i)) > Cardinality(LineOnImage(i))
        /\ ~ OnImage(MaxRangeCell(i))
        /\ LineOnImage(i) \subseteq g_lidar_local_occ_meas

\* A line that runs through two cells off the image after the cell marked.
C32_WitnessTwoCellsOff ==
    /\ scanned = "get_lidar"
    /\ \E i \in ValidBeams :
        /\ LineOnImage(i) # {}
        /\ Len(LineOf(i)) >= Cardinality(LineOnImage(i)) + 2
        /\ g_lidar_local_occ_meas = LineOnImage(i)

(***************************************************************************)
(* Further properties of the corner repair of get_pano_meas.               *)
(***************************************************************************)

\* The row and column ranges of the four corner blocks of the merged grid.
CornerRanges ==
    LET n == merged_local_occ.n
        low == 0..(n \div 3 - 1)
        high == ((2 * n) \div 3)..(n - 1)
    IN  {<<low, low>>, <<low, high>>, <<high, high>>, <<high, low>>}

\* The repair of the blocks one after another in the order f, on img.
RECURSIVE RepairedInOrder(_, _, _)
RepairedInOrder(img, f, k) ==
    IF k > Len(f) THEN img
    ELSE RepairedInOrder(fill_corner(img, f[k][1], f[k][2], occ_dtype), f, k + 1)

\* The orders of the four blocks.
BlockOrders ==
    {f \in [1..4 -> CornerRanges] : \A b \in CornerRanges : \E k \in 1..4 : f[k] = b}

\* C33: the corner repair leaves every cell outside the four corner blocks as
\* merged and frees no occupied cell; what it does to a block is what the
\* repair of that block alone does to the merged grid, whatever the order of
\* the blocks; and the repair of the repaired grid changes nothing.
C33_RepairOnlyFillsCornerBlocks ==
    merged =>
        /\ pano_local_occ_meas.n = merged_local_occ.n
        /\ pano_local_occ_meas.occ \ UNION CornerBlocks
               = merged_local_occ.occ \ UNION CornerBlocks
        /\ merged_local_occ.occ \subseteq pano_local_occ_meas.occ
        /\ \A b \in CornerRanges :
               pano_local_occ_meas.occ \cap (b[1] \X b[2])
                   = fill_corner(merged_local_occ, b[1], b[2], occ_dtype).occ \cap (b[1] \X b[2])
        /\ \A f \in BlockOrders : RepairedInOrder(merged_local_occ, f, 1) = pano_local_occ_meas
        /\ fill_corners(pano_local_occ_meas, occ_dtype) = pano_local_occ_meas

\* C33 happens: the repair filled a block that had free cells, left another
\* block with an occupied cell as merged, and the merged grid has an occupied
\* cell outside the blocks.
C33_Witness ==
    /\ merged
    /\ \E block \in CornerBlocks :
        /\ block \subseteq pano_local_occ_meas.occ
        /\ block \ merged_local_occ.occ # {}
    /\ \E block \in CornerBlocks :
        /\ OccupiedIn(block) # {}
        /\ pano_local_occ_meas.occ \cap block = OccupiedIn(block)
        /\ block \ pano_local_occ_meas.occ # {}
    /\ merged_local_occ.occ \ UNION CornerBlocks # {}

====
